---- MODULE Spec2Model ----
(***************************************************************************)
(* VideoResound: the segmented dubbing pipeline of src/video_dubber.py,    *)
(* its resumable progress ledger, and the timed-audio assembler of         *)
(* src/processors/voice_cloner.py.                                         *)
(*                                                                         *)
(* Spec          runs of the __main__ block: VideoDubber(work_dir) then    *)
(*               dub_video, with interrupts, failed writes, reruns and     *)
(*               out-of-band file deletion between runs.                   *)
(* SpecAudio     VoiceCloner.generate_timed_audio on a bounded subtitle    *)
(*               list, one loop iteration per step.                        *)
(* SpecValidate  VideoDubber.validate_progress on a ledger read from an    *)
(*               arbitrary progress.json.                                  *)
(***************************************************************************)
EXTENDS Integers, Sequences, FiniteSets, TLC

(***************************************************************************)
(* Bounds of the model.                                                    *)
(***************************************************************************)
\* whole seconds of the longest video
MaxSec == 2
\* largest segment_duration, in seconds
MaxW == 2
\* runs of the program on one work directory
MaxRuns == 2
\* subtitle times run from 0 to MaxT, in ticks of half a second
MaxT == 5
\* longest subtitle, in ticks
MaxLen == 2
\* longest subtitle list
MaxSubs == 3
\* ledger entries of an arbitrary progress.json
MaxEntries == 2

(***************************************************************************)
(* Python numbers and their text.                                          *)
(*                                                                         *)
(* A number is an int or a float.  A float keeps its whole seconds `ip`    *)
(* and whether it has a non-zero fractional part (`fr` = 1).  str() of an  *)
(* int n is the text "n"; str() of a float is "n.f": the two texts differ  *)
(* even when the values are equal (str(700) = "700", str(700.0) =          *)
(* "700.0").                                                               *)
(***************************************************************************)
PyInt(n) == [isInt |-> TRUE, ip |-> n, fr |-> 0]

PyFloat(n, f) == [isInt |-> FALSE, ip |-> n, fr |-> f]

\* a < b on Python numbers
PyLess(a, b) == a.ip < b.ip \/ (a.ip = b.ip /\ a.fr < b.fr)

\* min(a, b): Python returns the first argument unless the second is smaller
PyMin(a, b) == IF PyLess(b, a) THEN b ELSE a

\* int(x): truncation toward zero (all numbers here are >= 0)
PyTrunc(x) == x.ip

\* Text tokens: the fields of a name between '_' separators.
IntTok(n) == [kind |-> "int", ip |-> n, fr |-> 0]

FloatTok(n, f) == [kind |-> "float", ip |-> n, fr |-> f]

WordTok == [kind |-> "word", ip |-> 0, fr |-> 0]

InfTok == [kind |-> "inf", ip |-> 0, fr |-> 0]

NanTok == [kind |-> "nan", ip |-> 0, fr |-> 0]

\* f"{x}" for a Python number x
Str(x) == IF x.isInt THEN IntTok(x.ip) ELSE FloatTok(x.ip, x.fr)

\* int(float(tok)): the integer, or the exception it raises
IntOfFloat(tok) ==
    CASE tok.kind \in {"int", "float"} -> [exc |-> "none", val |-> tok.ip]
      [] tok.kind = "inf" -> [exc |-> "OverflowError", val |-> 0]
      [] OTHER -> [exc |-> "ValueError", val |-> 0]

(***************************************************************************)
(* Names of the files of the work directory.                               *)
(***************************************************************************)
NoTok == [kind |-> "none", ip |-> 0, fr |-> 0]

\* subtitles/<lang>_<a>_<b>.srt
SrtFile(lang, a, b) == [pre |-> lang, a |-> a, b |-> b]

\* video/temp_output_<start>.mp4
OutputFile(start) == [pre |-> "temp_output", a |-> Str(start), b |-> NoTok]

\* a record without an "output" entry
NoFile == [pre |-> "none", a |-> NoTok, b |-> NoTok]

\* f"segment_{start_time}_{end_time}", as its '_'-separated fields
SegmentKey(start, end) == <<WordTok, Str(start), Str(end)>>

(***************************************************************************)
(* The ledger: a function from segment keys to records                     *)
(* [output, completed].  progress.json is absent, holds the complete JSON  *)
(* document of a ledger (field `led`), or is truncated (opened for writing *)
(* and not completely written).                                            *)
(***************************************************************************)
EmptyLedger == [k \in {} |-> [output |-> NoFile, completed |-> TRUE]]

DiskAbsent == [state |-> "absent", led |-> EmptyLedger]

DiskTruncated == [state |-> "truncated", led |-> EmptyLedger]

DiskComplete(led) == [state |-> "complete", led |-> led]

\* JSON values of a record's members: a string, or no member at all
JsonString(f) == [json |-> "string", file |-> f]

JsonMissing == [json |-> "missing", file |-> NoFile]

\* json.dump(self.progress, f): an object per key (the keys are str and
\* stay as they are), "output" as a string, "completed" as true / false
JsonDump(led) ==
    [k \in DOMAIN led |->
        [output |-> IF led[k].output = NoFile THEN JsonMissing
                    ELSE JsonString(led[k].output),
         completed |-> IF led[k].completed THEN "true" ELSE "false"]]

\* a reader that takes every non-empty text for True
JsonLoadTruthy(doc) ==
    [k \in DOMAIN doc |->
        [output |-> IF doc[k].output.json = "string" THEN doc[k].output.file
                    ELSE NoFile,
         completed |-> doc[k].completed # ""]]

\* json.load(f): the dict of the document
JsonLoad(doc) ==
    [k \in DOMAIN doc |->
        [output |-> IF doc[k].output.json = "string" THEN doc[k].output.file
                    ELSE NoFile,
         completed |-> doc[k].completed = "true"]]

\* self.progress[segment_key] = {"output": output, "completed": True}
PutRecord(led, key, output) ==
    [k \in DOMAIN led \cup {key} |->
        IF k = key THEN [output |-> output, completed |-> TRUE] ELSE led[k]]

\* the ledger restricted to a set of keys
Restrict(led, keys) == [k \in keys |-> led[k]]

(***************************************************************************)
(* validate_progress, entry by entry.                                      *)
(***************************************************************************)
\* one iteration of the for loop: "keep", "drop", or the exception that
\* leaves the except (ValueError, IndexError) clause
CheckEntry(key, data, fs) ==
    IF data.output = NoFile \/ data.output \notin fs THEN "drop"
    ELSE IF Len(key) # 3 THEN "drop"
    ELSE LET s == IntOfFloat(key[2])
             e == IntOfFloat(key[3])
         IN  IF s.exc = "ValueError" THEN "drop"
             ELSE IF s.exc = "OverflowError" THEN "raise"
             ELSE IF e.exc = "ValueError" THEN "drop"
             ELSE IF e.exc = "OverflowError" THEN "raise"
             ELSE IF SrtFile("ru", IntTok(s.val), IntTok(e.val)) \notin fs
                     \/ SrtFile("es", IntTok(s.val), IntTok(e.val)) \notin fs
                  THEN "drop"
                  ELSE "keep"

\* valid_progress with one of the entries that pass every check left out
ValidProgressDropsOneMore(led, fs) ==
    LET kept == {k \in DOMAIN led : CheckEntry(k, led[k], fs) = "keep"}
    IN  IF kept = {} THEN Restrict(led, {})
        ELSE Restrict(led, kept \ {CHOOSE k \in kept : TRUE})

\* valid_progress after the loop
ValidProgress(led, fs) ==
    Restrict(led, {k \in DOMAIN led : CheckEntry(k, led[k], fs) = "keep"})

\* an exception escapes the loop
ValidateRaises(led, fs) ==
    \E k \in DOMAIN led : CheckEntry(k, led[k], fs) = "raise"

\* Python's True: a bool, which compares equal to the int 1
PyTrue == [isInt |-> TRUE, isBool |-> TRUE, ip |-> 1, fr |-> 0]

\* the value validate_progress returns when it returns: `return True` on the
\* empty ledger and at the end
ValidateReturn(led, fs) == PyTrue

(***************************************************************************)
(* The partition of dub_video.                                             *)
(***************************************************************************)
\* range(0, int(duration), segment_duration) still has start_time in it
InRange(start, dur) == start < PyTrunc(dur)

\* end_time = min(start_time + segment_duration, duration)
EndTime(start, w, dur) == PyMin(PyInt(start + w), dur)

\* the start times the for loop goes through below `upto`
Starts(w, dur, upto) ==
    {s \in 0..(PyTrunc(dur) + w) : s % w = 0 /\ InRange(s, dur) /\ s < upto}

(***************************************************************************)
(* State.                                                                  *)
(***************************************************************************)
VARIABLES
    duration,          \* video.duration, a float (moviepy)
    segment_duration,  \* the segment_duration argument, whole seconds
    files,             \* files that exist under the work directory
    disk,              \* progress.json
    final,             \* output_video_path: "absent", "complete", "partial"
    progress,          \* self.progress
    pc,                \* position of the run
    start_time,        \* loop variable of dub_video
    dubbed_segments,   \* the list dub_video concatenates
    saveRet,           \* caller of save_progress: "validate" or "loop"
    run,               \* number of the run
    faulted,           \* a write of this run has failed
    fresh,             \* start times process_segment returned a clip for, this run
    diskAtSave,        \* progress.json when save_progress began; absent outside it
    dirty,             \* a file was deleted out-of-band since the run ended
    resume,            \* this run follows a complete run, only the final output deleted
    temps,             \* temporary artifacts on disk, where they are observed
    subtitles,         \* generate_timed_audio: the subtitles argument
    apc,               \* generate_timed_audio: position
    idx,               \* generate_timed_audio: i of the for loop
    last_end,          \* generate_timed_audio: last_end
    final_audio,       \* generate_timed_audio: the track, a list of pieces
    exported,          \* generate_timed_audio: output_path was written
    attempts,          \* generate_timed_audio: outcome of each synthesis so far
    calls,             \* calls of validate_progress made by this process
    vpc,               \* voice reference of dub_video: position
    metadata,          \* approved/<voice_name>/metadata.json
    sample_files,      \* sample files that exist under voice_references
    reference_samples, \* dub_video: reference_samples
    reference_audio,   \* self.reference_audio
    current_samples,   \* verify_voice_samples: current_samples
    approved_samples,  \* verify_voice_samples: approved_samples
    vi,                \* verify_voice_samples: i of the for loop
    reuse_mode,        \* verify_voice_samples: reuse_mode
    epc,               \* extract_voice_references: position
    min_duration,      \* extract_voice_references: min_duration, seconds
    max_duration,      \* extract_voice_references: max_duration, seconds
    silence_thresh,    \* extract_voice_references: silence_thresh, dBFS
    chunks,            \* extract_voice_references: lengths of the chunks, seconds
    extracted_samples, \* extract_voice_references: extracted_samples
    wpc,               \* process_video_segment: position
    segment,           \* process_video_segment: segment of the for loop
    ru_subs,           \* process_video_segment: ru_subs
    es_subs,           \* process_video_segment: es_subs
    translation_cache, \* self.translation_cache
    cache_disk,        \* translation_cache.json
    outcome,           \* translate_to_spanish: how the last call returned
    wcalls             \* calls of process_video_segment so far

whisperVars == <<wpc, segment, ru_subs, es_subs, translation_cache, cache_disk,
                 outcome, wcalls>>

runState == <<duration, segment_duration, files, disk, final, progress, pc,
              start_time, dubbed_segments, saveRet, run, faulted, fresh,
              diskAtSave, dirty, resume, calls, temps>>

dubVars == <<whisperVars, runState>>

audVars == <<subtitles, apc, idx, last_end, final_audio, exported, attempts>>

extVars == <<epc, min_duration, max_duration, silence_thresh, chunks,
             extracted_samples>>

voiceVars == <<vpc, metadata, sample_files, reference_samples, reference_audio,
               current_samples, approved_samples, vi, reuse_mode, extVars>>

vars == <<dubVars, audVars, voiceVars>>

inputs == <<duration, segment_duration>>

fsVars == <<files, disk, final>>

loopVars == <<start_time, dubbed_segments, fresh>>

saveVars == <<saveRet, diskAtSave>>

runVars == <<run, dirty, resume>>

\* the window and key of the current loop iteration
CurEnd == EndTime(start_time, segment_duration, duration)

CurKey == SegmentKey(PyInt(start_time), CurEnd)

CurOutput == OutputFile(PyInt(start_time))

\* f"ru_{start_time}_{end_time}.srt" and f"es_..." of process_video_segment
CurRu == SrtFile("ru", Str(PyInt(start_time)), Str(CurEnd))

CurEs == SrtFile("es", Str(PyInt(start_time)), Str(CurEnd))

\* audio/temp_audio_<start>_<end>.wav of process_segment
TempAudio(start, end) == [pre |-> "temp_audio", a |-> Str(start), b |-> Str(end)]

CurTempAudio == TempAudio(PyInt(start_time), CurEnd)

\* segments.txt, the concat file of dub_video
ConcatFile == [pre |-> "segments", a |-> NoTok, b |-> NoTok]

\* the value of temps in the specifications that leave the temporary
\* artifacts out; there the actions keep it
Unobserved == {[pre |-> "unobserved", a |-> NoTok, b |-> NoTok]}

Observing(artifacts) == IF temps = Unobserved THEN Unobserved ELSE artifacts

\* positions between the call of process_segment and the ledger update
InFlight == {"transcribe", "synth", "merge", "returned"}

\* positions at which the process is running
Running == {"start", "validate", "voice", "loop", "after_loop", "save_open",
            "save_write", "concat"} \cup InFlight

\* positions at which the process has ended
Ended == {"done", "error", "cancelled", "interrupted", "interrupted_in_flight"}

\* the exit status of a process that ended at position p: sys.exit(1) in
\* cleanup_handler; otherwise __main__ runs to its end, after dub_video
\* returned ("done", "cancelled") or after its except Exception clause
\* printed the error dub_video raised ("error")
ExitStatus(p) == IF p \in {"interrupted", "interrupted_in_flight"} THEN 1 ELSE 0

\* the process ends at position p: its memory is gone
Exit(p) ==
    /\ pc' = p
    /\ progress' = EmptyLedger
    /\ dubbed_segments' = <<>>
    /\ fresh' = {}
    /\ saveRet' = "validate"
    /\ diskAtSave' = DiskAbsent

\* generate_timed_audio is not running
AudioIdle ==
    /\ subtitles = <<>>
    /\ apc = "idle"
    /\ idx = 0
    /\ last_end = 0
    /\ final_audio = <<>>
    /\ exported = FALSE
    /\ attempts = <<>>

\* None, or a list (of sample paths)
PyNone == [none |-> TRUE, list |-> <<>>]

PyList(l) == [none |-> FALSE, list |-> l]

\* the truth value of `if x:` / `if not x:` for None or a list
Truthy(x) == ~x.none /\ x.list # <<>>

\* extracted/sample_<n>.wav and approved/<voice_name>/reference_<n>.wav
ExtractedSample(n) == [dir |-> "extracted", n |-> n]

ApprovedSample(n) == [dir |-> "approved", n |-> n]

\* self.reference_audio = None
NoSample == [dir |-> "none", n |-> 0]

\* metadata.json does not exist
NoMetadata == [kind |-> "absent", samples |-> <<>>]

\* extract_voice_references is not part of the behaviour
ExtractIdle ==
    /\ epc = "idle"
    /\ min_duration = 3
    /\ max_duration = 10
    /\ silence_thresh = -40
    /\ chunks = <<>>
    /\ extracted_samples = <<>>

\* no segment of a whisper result
NoSegment == [start |-> 0, end |-> 0, text |-> <<>>]

\* self.translation_cache = {}
EmptyCache == [t \in {} |-> <<>>]

\* translation_cache.json does not exist
CacheAbsent == [state |-> "absent", content |-> EmptyCache]

\* WhisperProcessor.__init__ and load_translation_cache on a work directory
\* without translation_cache.json; process_video_segment has not been called
WhisperIdle ==
    /\ wpc = "idle"
    /\ segment = NoSegment
    /\ ru_subs = <<>>
    /\ es_subs = <<>>
    /\ translation_cache = EmptyCache
    /\ cache_disk = CacheAbsent
    /\ outcome = "none"
    /\ wcalls = 0

\* the voice reference of dub_video is not part of the behaviour
VoiceIdle ==
    /\ ExtractIdle
    /\ vpc = "idle"
    /\ metadata = NoMetadata
    /\ sample_files = {}
    /\ reference_samples = PyNone
    /\ reference_audio = NoSample
    /\ current_samples = <<>>
    /\ approved_samples = <<>>
    /\ vi = 0
    /\ reuse_mode = FALSE

(***************************************************************************)
(* Init: an empty work directory, a video of 0.5 .. MaxSec+0.5 seconds.    *)
(***************************************************************************)
Durations == {PyFloat(n, f) : n \in 0..MaxSec, f \in {0, 1}} \ {PyFloat(0, 0)}

Init ==
    /\ duration \in Durations
    /\ segment_duration \in 1..MaxW
    /\ files = {}
    /\ disk = DiskAbsent
    /\ final = "absent"
    /\ progress = EmptyLedger
    /\ pc = "start"
    /\ start_time = 0
    /\ dubbed_segments = <<>>
    /\ saveRet = "validate"
    /\ run = 1
    /\ faulted = FALSE
    /\ fresh = {}
    /\ diskAtSave = DiskAbsent
    /\ dirty = FALSE
    /\ temps = Unobserved
    /\ WhisperIdle
    /\ resume = FALSE
    /\ calls = 0
    /\ AudioIdle
    /\ VoiceIdle

(***************************************************************************)
(* generate_timed_audio (voice_cloner.py).  Times are in ticks of half a   *)
(* second.  The track is the list of pieces appended to final_audio: a     *)
(* silence of `dur` ticks, or the clip synthesized for the subtitle at     *)
(* position `of` of sorted_subs (its length is whatever the synthesizer    *)
(* produced, more than 0).                                                 *)
(***************************************************************************)
\* max_gap=1.0 second, in ticks
max_gap == 2

Silence(d) == [kind |-> "silence", dur |-> d, of |-> 0]

Clip(k) == [kind |-> "clip", dur |-> 0, of |-> k]

Min(a, b) == IF a < b THEN a ELSE b

\* x put into the list r, which is sorted by start: before the first
\* element that starts later, after those that start at the same time
RECURSIVE InsertByStart(_, _)
InsertByStart(x, r) ==
    IF r = <<>> THEN <<x>>
    ELSE IF Head(r).start <= x.start
         THEN <<Head(r)>> \o InsertByStart(x, Tail(r))
         ELSE <<x>> \o r

\* the list as the caller gave it
InputOrder(subs) == subs

\* sorted(subtitles, key=lambda x: x.start): a stable sort
RECURSIVE SortByStart(_)
SortByStart(subs) ==
    IF subs = <<>> THEN <<>>
    ELSE InsertByStart(subs[Len(subs)], SortByStart(SubSeq(subs, 1, Len(subs) - 1)))

sorted_subs == SortByStart(subtitles)

\* gap = start_time - last_end if i > 0 else 0  (i = idx, counted from 0)
Gap(sub) == IF idx > 0 THEN sub.start - last_end ELSE 0

\* a silence as long as the gap, however long
SilenceUncapped(gap) == gap

\* silence_duration = min(gap * 1000, max_gap * 1000)
SilenceDuration(gap) == Min(gap, max_gap)

\* if gap > 0: final_audio += AudioSegment.silent(...)
WithSilence(track, gap) ==
    IF gap > 0 THEN Append(track, Silence(SilenceDuration(gap))) ELSE track

\* a track taken to have a length whatever is in it
EmptyHasLength(track) == Len(track) >= 0

\* len(final_audio) > 0
HasLength(track) ==
    \E k \in 1..Len(track) : track[k].kind = "clip" \/ track[k].dur > 0

\* the loop of generate_timed_audio as a function: the track and last_end
\* after the first n subtitles of the sorted list ss, ok[sub] telling
\* whether tts_to_file leaves a file for sub
RECURSIVE AudioAfter(_, _, _)
AudioAfter(ss, ok, n) ==
    IF n = 0 THEN [track |-> <<>>, last |-> 0]
    ELSE LET prev == AudioAfter(ss, ok, n - 1)
             sub == ss[n]
             gap == IF n - 1 > 0 THEN sub.start - prev.last ELSE 0
             track == WithSilence(prev.track, gap)
         IN  IF ok[sub]
             THEN [track |-> Append(track, Clip(n)), last |-> sub.end]
             ELSE [track |-> track, last |-> prev.last]

\* generate_timed_audio(subtitles, ...) with the reference audio found:
\* the pieces of the exported track, each clip with the subtitle it
\* speaks, and whether True is returned
GenerateTimedAudio(subs, ok) ==
    LET ss == SortByStart(subs)
        track == AudioAfter(ss, ok, Len(ss)).track
    IN  [track |-> [k \in DOMAIN track |->
                       IF track[k].kind = "clip"
                       THEN [kind |-> "clip", sub |-> ss[track[k].of]]
                       ELSE [kind |-> "silence", dur |-> track[k].dur]],
         result |-> HasLength(track)]

(***************************************************************************)
(* VideoDubber(work_dir): setup_work_directory loads progress.json.        *)
(* json.load of a truncated file raises; __main__ prints "Fatal error".    *)
(***************************************************************************)
Load ==
    /\ pc = "start"
    /\ \/ /\ disk.state = "absent"
          /\ progress' = EmptyLedger
          /\ pc' = "validate"
          /\ UNCHANGED <<loopVars, saveVars>>
       \/ /\ disk.state = "complete"
          /\ progress' = JsonLoad(disk.led)
          /\ pc' = "validate"
          /\ UNCHANGED <<loopVars, saveVars>>
       \/ /\ disk.state = "truncated"
          /\ Exit("error")
          /\ UNCHANGED start_time
    /\ UNCHANGED <<whisperVars, audVars, voiceVars, temps, calls, inputs, fsVars, runVars, faulted>>

(***************************************************************************)
(* validate_progress, up to its call of save_progress.                     *)
(***************************************************************************)
ValidateProgress ==
    /\ pc = "validate"
    /\ IF progress = EmptyLedger
       THEN /\ pc' = "voice"
            /\ UNCHANGED <<progress, loopVars, saveVars>>
       ELSE IF ValidateRaises(progress, files)
       THEN /\ Exit("error")
            /\ UNCHANGED start_time
       ELSE IF Cardinality(DOMAIN progress)
                 - Cardinality(DOMAIN ValidProgress(progress, files)) > 0
       THEN /\ progress' = ValidProgress(progress, files)
            /\ pc' = "save_open"
            /\ saveRet' = "validate"
            /\ diskAtSave' = disk
            /\ UNCHANGED loopVars
       ELSE /\ pc' = "voice"
            /\ UNCHANGED <<progress, loopVars, saveVars>>
    /\ calls' = calls + 1
    /\ UNCHANGED <<whisperVars, audVars, voiceVars, temps, inputs, fsVars, runVars, faulted>>

(***************************************************************************)
(* save_progress: open(progress_file, 'w') truncates the file, json.dump   *)
(* writes it; an exception of either is printed and swallowed.             *)
(***************************************************************************)
\* save_progress returns to its caller: validate_progress (then the voice
\* reference), or the loop body (then pbar.update and the next window)
SaveReturns ==
    /\ pc' = IF saveRet = "validate" THEN "voice" ELSE "loop"
    /\ start_time' = IF saveRet = "validate" THEN start_time
                     ELSE start_time + segment_duration
    /\ diskAtSave' = DiskAbsent
    /\ UNCHANGED <<progress, dubbed_segments, fresh, saveRet>>

SaveOpen ==
    /\ pc = "save_open"
    /\ disk' = DiskTruncated
    /\ pc' = "save_write"
    /\ UNCHANGED <<whisperVars, audVars, voiceVars, temps, calls, inputs, files, final, progress, loopVars, saveVars,
                   runVars, faulted>>

SaveOpenFails ==
    /\ pc = "save_open"
    /\ ~faulted
    /\ faulted' = TRUE
    /\ SaveReturns
    /\ UNCHANGED <<whisperVars, audVars, voiceVars, temps, calls, inputs, fsVars, runVars>>

SaveWrite ==
    /\ pc = "save_write"
    /\ disk' = DiskComplete(JsonDump(progress))
    /\ SaveReturns
    /\ UNCHANGED <<whisperVars, audVars, voiceVars, temps, calls, inputs, files, final, runVars, faulted>>

SaveWriteFails ==
    /\ pc = "save_write"
    /\ ~faulted
    /\ faulted' = TRUE
    /\ SaveReturns
    /\ UNCHANGED <<whisperVars, audVars, voiceVars, temps, calls, inputs, fsVars, runVars>>

(***************************************************************************)
(* dub_video: the voice reference (lines 190-227), abstracted to its two   *)
(* outcomes: a reference is set, or the user cancels and dub_video         *)
(* returns.                                                                *)
(***************************************************************************)
VoiceApproved ==
    /\ pc = "voice"
    /\ pc' = "loop"
    /\ start_time' = 0
    /\ dubbed_segments' = <<>>
    /\ UNCHANGED <<whisperVars, audVars, voiceVars, temps, calls, inputs, fsVars, progress, fresh, saveVars, runVars,
                   faulted>>

VoiceCancelled ==
    /\ pc = "voice"
    /\ Exit("cancelled")
    /\ UNCHANGED <<whisperVars, audVars, voiceVars, temps, calls, inputs, fsVars, start_time, runVars, faulted>>

(***************************************************************************)
(* dub_video: the segment loop.                                            *)
(***************************************************************************)
\* a reused output put in front of the list instead of at its end
LoopReusePrepends ==
    /\ pc = "loop"
    /\ InRange(start_time, duration)
    /\ CurKey \in DOMAIN progress
    /\ dubbed_segments' = <<progress[CurKey].output>> \o dubbed_segments
    /\ start_time' = start_time + segment_duration
    /\ UNCHANGED <<whisperVars, audVars, voiceVars, temps, calls, inputs, fsVars, progress, pc, fresh,
                   saveVars, runVars, faulted>>

\* segment_key in self.progress: reuse the recorded output
LoopReuse ==
    /\ pc = "loop"
    /\ InRange(start_time, duration)
    /\ CurKey \in DOMAIN progress
    /\ dubbed_segments' = Append(dubbed_segments, progress[CurKey].output)
    /\ start_time' = start_time + segment_duration
    /\ UNCHANGED <<whisperVars, audVars, voiceVars, temps, calls, inputs, fsVars, progress, pc, fresh, saveVars, runVars,
                   faulted>>

\* otherwise call process_segment
LoopProcess ==
    /\ pc = "loop"
    /\ InRange(start_time, duration)
    /\ CurKey \notin DOMAIN progress
    /\ pc' = "transcribe"
    /\ UNCHANGED <<whisperVars, audVars, voiceVars, temps, calls, inputs, fsVars, progress, loopVars, saveVars, runVars,
                   faulted>>

\* the loop left before the range is exhausted
LoopExitEarly ==
    /\ pc = "loop"
    /\ pc' = "after_loop"
    /\ UNCHANGED <<whisperVars, audVars, voiceVars, temps, calls, inputs, fsVars, progress, loopVars, saveVars, runVars,
                   faulted>>

\* the range is exhausted
LoopExit ==
    /\ pc = "loop"
    /\ ~InRange(start_time, duration)
    /\ pc' = "after_loop"
    /\ UNCHANGED <<whisperVars, audVars, voiceVars, temps, calls, inputs, fsVars, progress, loopVars, saveVars, runVars,
                   faulted>>

(***************************************************************************)
(* process_segment, stage by stage.  Any exception of a stage is caught    *)
(* by its except Exception clause: it returns None, and the loop goes on   *)
(* with the next window.                                                   *)
(***************************************************************************)
\* a failed window ends the loop
ReturnsNoneAborts ==
    /\ pc' = "after_loop"
    /\ UNCHANGED <<start_time, progress, dubbed_segments, fresh, saveVars>>

\* process_segment returns None: pbar.update, next window
ReturnsNone ==
    /\ pc' = "loop"
    /\ start_time' = start_time + segment_duration
    /\ UNCHANGED <<progress, dubbed_segments, fresh, saveVars>>

\* process_video_segment returns two empty lists (no speech, or its own
\* except clause): generate_timed_audio([]) is called, and the merge follows
\* only if it returns True
TranscribeNone ==
    /\ pc = "transcribe"
    /\ IF GenerateTimedAudio(<<>>, <<>>).result
       THEN /\ pc' = "merge"
            /\ UNCHANGED <<progress, loopVars, saveVars>>
       ELSE ReturnsNone
    /\ UNCHANGED <<whisperVars, audVars, voiceVars, temps, calls, inputs, fsVars, runVars, faulted>>

\* process_video_segment returns subtitles and save_subtitles wrote both files
TranscribeSubs ==
    /\ pc = "transcribe"
    /\ files' = files \cup {CurRu, CurEs}
    /\ pc' = "synth"
    /\ UNCHANGED <<whisperVars, audVars, voiceVars, temps, calls, inputs, disk, final, progress, loopVars, saveVars,
                   runVars, faulted>>

\* save_subtitles swallows the exception of a failed write; the file is
\* there if open() succeeded (`left`), and the subtitles are returned all
\* the same
TranscribeWriteFails ==
    /\ pc = "transcribe"
    /\ ~faulted
    /\ faulted' = TRUE
    /\ \E failing \in (SUBSET {CurRu, CurEs}) \ {{}} :
       \E left \in SUBSET failing :
          files' = files \cup ({CurRu, CurEs} \ failing) \cup left
    /\ pc' = "synth"
    /\ UNCHANGED <<whisperVars, audVars, voiceVars, temps, calls, inputs, disk, final, progress, loopVars, saveVars,
                   runVars>>

\* generate_timed_audio exported temp_audio_<start>_<end>.wav and returns True
SynthOk ==
    /\ pc = "synth"
    /\ temps' = Observing(temps \cup {CurTempAudio})
    /\ pc' = "merge"
    /\ UNCHANGED <<whisperVars, audVars, voiceVars, calls, inputs, fsVars, progress, loopVars, saveVars, runVars,
                   faulted>>

\* generate_timed_audio returns False: RuntimeError
SynthFails ==
    /\ pc = "synth"
    /\ ReturnsNone
    /\ UNCHANGED <<whisperVars, audVars, voiceVars, temps, calls, inputs, fsVars, runVars, faulted>>

\* a merge that leaves the temporary audio track where it is
MergeOkKeepsAudio ==
    /\ pc = "merge"
    /\ files' = files \cup {CurOutput}
    /\ fresh' = fresh \cup {start_time}
    /\ pc' = "returned"
    /\ UNCHANGED <<whisperVars, audVars, voiceVars, temps, calls, inputs, disk, final, progress, start_time,
                   dubbed_segments, saveVars, runVars, faulted>>

\* merge_audio_video wrote temp_output_<start>.mp4 and removed the audio
\* track; process_segment returns the clip
MergeOk ==
    /\ pc = "merge"
    /\ files' = files \cup {CurOutput}
    /\ temps' = Observing(temps \ {CurTempAudio})
    /\ fresh' = fresh \cup {start_time}
    /\ pc' = "returned"
    /\ UNCHANGED <<whisperVars, audVars, voiceVars, calls, inputs, disk, final, progress, start_time,
                   dubbed_segments, saveVars, runVars, faulted>>

\* merge_audio_video raises, before or while writing the clip
MergeFails ==
    /\ pc = "merge"
    /\ files' \in {files, files \cup {CurOutput}}
    /\ ReturnsNone
    /\ UNCHANGED <<whisperVars, audVars, voiceVars, temps, calls, inputs, disk, final, runVars, faulted>>

\* if output: append, record, save_progress()
Record ==
    /\ pc = "returned"
    /\ dubbed_segments' = Append(dubbed_segments, CurOutput)
    /\ progress' = PutRecord(progress, CurKey, CurOutput)
    /\ pc' = "save_open"
    /\ saveRet' = "loop"
    /\ diskAtSave' = disk
    /\ UNCHANGED <<whisperVars, audVars, voiceVars, temps, calls, inputs, fsVars, start_time, fresh, runVars, faulted>>

(***************************************************************************)
(* dub_video: concatenation.                                               *)
(***************************************************************************)
\* if dubbed_segments: ... else: raise RuntimeError
AfterLoop ==
    /\ pc = "after_loop"
    /\ IF dubbed_segments # <<>>
       THEN /\ pc' = "concat"
            /\ temps' = Observing(temps \cup {ConcatFile})
            /\ UNCHANGED <<progress, loopVars, saveVars>>
       ELSE /\ Exit("error")
            /\ UNCHANGED <<temps, start_time>>
    /\ UNCHANGED <<whisperVars, audVars, voiceVars, calls, inputs, fsVars, runVars, faulted>>

\* os.path.abspath(segment)
AbsPath(f) == [dir |-> "cwd", file |-> f]

\* the lines written to segments.txt: file '<absolute path>' per element of
\* dubbed_segments, in list order
Manifest(segs) == [i \in 1..Len(segs) |-> AbsPath(segs[i])]

\* the remux tool exits with status 0; os.remove(concat_file)
ConcatOk ==
    /\ pc = "concat"
    /\ final' = "complete"
    /\ temps' = Observing(temps \ {ConcatFile})
    /\ Exit("done")
    /\ UNCHANGED <<whisperVars, audVars, voiceVars, calls, inputs, files, disk, start_time, runVars, faulted>>

\* the remux tool exits with another status: RuntimeError
ConcatFails ==
    /\ pc = "concat"
    /\ final' \in {"absent", "partial"}
    /\ Exit("error")
    /\ UNCHANGED <<whisperVars, audVars, voiceVars, temps, calls, inputs, files, disk, start_time, runVars, faulted>>

(***************************************************************************)
(* SIGINT/SIGTERM: cleanup_handler calls sys.exit(1).  SystemExit is no    *)
(* Exception, so no except clause of the run catches it.  A clip or a      *)
(* final output being written stays as a partial file.                     *)
(***************************************************************************)
Interrupt ==
    /\ pc \in Running
    /\ Exit(IF pc \in InFlight THEN "interrupted_in_flight" ELSE "interrupted")
    /\ files' \in IF pc = "merge" THEN {files, files \cup {CurOutput}}
                  ELSE {files}
    /\ final' \in IF pc = "concat" THEN {final, "partial"} ELSE {final}
    /\ UNCHANGED <<whisperVars, audVars, voiceVars, temps, calls, inputs, disk, start_time, runVars, faulted>>

(***************************************************************************)
(* Between two runs.                                                       *)
(***************************************************************************)
\* every window of the partition has a record in progress.json
AllRecorded ==
    /\ disk.state = "complete"
    /\ \A s \in Starts(segment_duration, duration, PyTrunc(duration)) :
          SegmentKey(PyInt(s), EndTime(s, segment_duration, duration))
              \in DOMAIN disk.led

\* the user deletes the final output
DeleteFinal ==
    /\ pc \in Ended
    /\ final # "absent"
    /\ final' = "absent"
    /\ UNCHANGED <<whisperVars, audVars, voiceVars, temps, calls, inputs, files, disk, progress, pc, loopVars, saveVars,
                   runVars, faulted>>

\* a file of the work directory is deleted out-of-band (one between two runs)
Tamper ==
    /\ pc \in Ended
    /\ ~dirty
    /\ dirty' = TRUE
    /\ \E f \in files : files' = files \ {f}
    /\ UNCHANGED <<whisperVars, audVars, voiceVars, temps, calls, inputs, disk, final, progress, pc, loopVars, saveVars,
                   run, resume, faulted>>

\* the program is started again on the same video and work directory
NextRun ==
    /\ pc \in Ended
    /\ run < MaxRuns
    /\ run' = run + 1
    /\ pc' = "start"
    /\ start_time' = 0
    /\ dirty' = FALSE
    /\ faulted' = FALSE
    /\ resume' = (pc = "done" /\ ~dirty /\ final = "absent" /\ AllRecorded)
    /\ calls' = 0
    /\ UNCHANGED <<whisperVars, audVars, voiceVars, temps, inputs, fsVars, progress, dubbed_segments,
                   fresh, saveVars>>

Next ==
    \/ Load
    \/ ValidateProgress
    \/ SaveOpen
    \/ SaveOpenFails
    \/ SaveWrite
    \/ SaveWriteFails
    \/ VoiceApproved
    \/ VoiceCancelled
    \/ LoopReuse
    \/ LoopProcess
    \/ LoopExit
    \/ TranscribeNone
    \/ TranscribeSubs
    \/ TranscribeWriteFails
    \/ SynthOk
    \/ SynthFails
    \/ MergeOk
    \/ MergeFails
    \/ Record
    \/ AfterLoop
    \/ ConcatOk
    \/ ConcatFails
    \/ Interrupt
    \/ DeleteFinal
    \/ Tamper
    \/ NextRun

Spec == Init /\ [][Next]_vars

(***************************************************************************)
(* generate_timed_audio, step by step.                                     *)
(***************************************************************************)
\* the reference audio is found (as given, or under approved/default)
AudioStart ==
    /\ apc = "begin"
    /\ apc' = "loop"
    /\ UNCHANGED <<dubVars, voiceVars, subtitles, idx, last_end, final_audio, exported,
                   attempts>>

\* "Reference audio not found in approved samples": the outer except
AudioReferenceMissing ==
    /\ apc = "begin"
    /\ apc' = "returned_false"
    /\ UNCHANGED <<dubVars, voiceVars, subtitles, idx, last_end, final_audio, exported,
                   attempts>>

\* an iteration that moves the cursor by the length of a clip of one tick
IterationSynthesizedByClipLength ==
    /\ apc = "loop"
    /\ idx < Len(sorted_subs)
    /\ LET sub == sorted_subs[idx + 1]
       IN  /\ final_audio' =
                Append(WithSilence(final_audio, Gap(sub)), Clip(idx + 1))
           /\ last_end' = sub.start + 1
    /\ attempts' = Append(attempts, TRUE)
    /\ idx' = idx + 1
    /\ UNCHANGED <<dubVars, voiceVars, subtitles, apc, exported>>

\* one iteration in which tts_to_file produced temp_speech_<i>.wav
IterationSynthesized ==
    /\ apc = "loop"
    /\ idx < Len(sorted_subs)
    /\ LET sub == sorted_subs[idx + 1]
       IN  /\ final_audio' =
                Append(WithSilence(final_audio, Gap(sub)), Clip(idx + 1))
           /\ last_end' = sub.end
    /\ attempts' = Append(attempts, TRUE)
    /\ idx' = idx + 1
    /\ UNCHANGED <<dubVars, voiceVars, subtitles, apc, exported>>

\* an exception in one iteration ends the loop and the call
IterationRaisedAborts ==
    /\ apc = "loop"
    /\ idx < Len(sorted_subs)
    /\ final_audio' = WithSilence(final_audio, Gap(sorted_subs[idx + 1]))
    /\ attempts' = Append(attempts, FALSE)
    /\ idx' = idx + 1
    /\ apc' = "returned_false"
    /\ UNCHANGED <<dubVars, voiceVars, subtitles, last_end, exported>>

\* one iteration in which tts_to_file raised: except, continue
IterationRaised ==
    /\ apc = "loop"
    /\ idx < Len(sorted_subs)
    /\ final_audio' = WithSilence(final_audio, Gap(sorted_subs[idx + 1]))
    /\ attempts' = Append(attempts, FALSE)
    /\ idx' = idx + 1
    /\ UNCHANGED <<dubVars, voiceVars, subtitles, apc, last_end, exported>>

\* one iteration in which tts_to_file returned and left no file
IterationNoFile ==
    /\ apc = "loop"
    /\ idx < Len(sorted_subs)
    /\ final_audio' = WithSilence(final_audio, Gap(sorted_subs[idx + 1]))
    /\ attempts' = Append(attempts, FALSE)
    /\ idx' = idx + 1
    /\ UNCHANGED <<dubVars, voiceVars, subtitles, apc, last_end, exported>>

\* after the loop: export and return True, or "No audio was generated"
AudioFinish ==
    /\ apc = "loop"
    /\ idx = Len(sorted_subs)
    /\ IF HasLength(final_audio)
       THEN exported' = TRUE /\ apc' = "returned_true"
       ELSE exported' = FALSE /\ apc' = "returned_false"
    /\ UNCHANGED <<dubVars, voiceVars, subtitles, idx, last_end, final_audio, attempts>>

\* the subtitles a caller can pass: start < end, at most MaxLen ticks long
SubPool ==
    {sub \in [start : 0..MaxT, end : 0..MaxT] :
        sub.start < sub.end /\ sub.end - sub.start <= MaxLen}

\* the dubbing run is not part of the behaviour
DubIdle ==
    /\ duration = PyFloat(1, 0)
    /\ segment_duration = 1
    /\ files = {}
    /\ disk = DiskAbsent
    /\ final = "absent"
    /\ progress = EmptyLedger
    /\ pc = "idle"
    /\ start_time = 0
    /\ dubbed_segments = <<>>
    /\ saveRet = "validate"
    /\ run = 1
    /\ faulted = FALSE
    /\ fresh = {}
    /\ diskAtSave = DiskAbsent
    /\ dirty = FALSE
    /\ temps = Unobserved
    /\ WhisperIdle
    /\ resume = FALSE
    /\ calls = 0

\* a call of generate_timed_audio with any list of at most MaxSubs subtitles
InitAudio ==
    /\ DubIdle
    /\ VoiceIdle
    /\ subtitles \in UNION {[1..n -> SubPool] : n \in 0..MaxSubs}
    /\ apc = "begin"
    /\ idx = 0
    /\ last_end = 0
    /\ final_audio = <<>>
    /\ exported = FALSE
    /\ attempts = <<>>

NextAudio ==
    \/ AudioStart
    \/ AudioReferenceMissing
    \/ IterationSynthesized
    \/ IterationRaised
    \/ IterationNoFile
    \/ AudioFinish

SpecAudio == InitAudio /\ [][NextAudio]_vars

(***************************************************************************)
(* Properties of SpecAudio.                                                *)
(***************************************************************************)
\* every synthesis attempted so far failed / succeeded
AllFailed == \A k \in 1..Len(attempts) : ~attempts[k]

AllSynthesized == \A k \in 1..Len(attempts) : attempts[k]

\* generate_timed_audio has returned
AudioReturned == apc \in {"returned_true", "returned_false"}

\* C5: when every subtitle of a non-empty list failed synthesis,
\* generate_timed_audio returns False and exports nothing.
C5_AllFailedReportsFailure ==
    (AudioReturned /\ subtitles # <<>> /\ AllFailed) =>
        (apc = "returned_false" /\ ~exported)

\* the track the claim describes for the first n subtitles by start: the
\* first clip with nothing before it, then before each later clip the
\* silence min(start - previous end, max_gap) when start > previous end
RECURSIVE ExpectedTrack(_)
ExpectedTrack(n) ==
    IF n = 0 THEN <<>>
    ELSE IF n = 1 THEN <<Clip(1)>>
    ELSE LET g == sorted_subs[n].start - sorted_subs[n - 1].end
         IN  ExpectedTrack(n - 1)
                 \o (IF g > 0 THEN <<Silence(IF g < max_gap THEN g ELSE max_gap)>>
                     ELSE <<>>)
                 \o <<Clip(n)>>

\* C6: while every subtitle synthesizes, the track is the first clip with
\* nothing before it, then for each later subtitle the silence
\* min(start_i - end_(i-1), 1.0 s) if start_i > end_(i-1), then its clip.
C6_TrackOfSuccessfulSynthesis ==
    (apc # "begin" /\ AllSynthesized) => final_audio = ExpectedTrack(idx)

\* C6 witness: two subtitles more than 1.0 s apart, given in reverse
\* order, both synthesized: clip, exactly 1.0 s of silence, clip.
C6_Witness ==
    /\ apc = "returned_true"
    /\ Len(subtitles) = 2
    /\ subtitles[1].start > subtitles[2].end + max_gap
    /\ AllSynthesized
    /\ final_audio = <<Clip(1), Silence(max_gap), Clip(2)>>

(***************************************************************************)
(* Properties of Spec.                                                     *)
(***************************************************************************)
\* total_segments = ceil(duration / segment_duration)
total_segments ==
    (duration.ip + (IF duration.fr > 0 THEN 1 ELSE 0) + segment_duration - 1)
        \div segment_duration

\* the start times of all windows of the run
AllStarts == Starts(segment_duration, duration, PyTrunc(duration))

\* the key of the window that starts at s
KeyOf(s) == SegmentKey(PyInt(s), EndTime(s, segment_duration, duration))

\* C1: when a window of the partition ended the loop with no output
\* (neither reused from the ledger nor produced by process_segment), the
\* run does not reach the concatenation step.
C1_IncompleteRunFailsBeforeConcat ==
    pc = "concat" => \A s \in AllStarts : KeyOf(s) \in DOMAIN progress

\* C2: the windows the loop went through start at 0, are contiguous, end
\* at the duration, and the last one has length D mod W (W when that is 0).
C2_WindowsCoverDuration ==
    pc = "after_loop" =>
        /\ 0 \in AllStarts
        /\ \A s \in AllStarts :
              LET e == EndTime(s, segment_duration, duration)
              IN  IF s + segment_duration \in AllStarts
                  THEN e.ip = s + segment_duration /\ e.fr = 0
                  ELSE /\ e.ip = duration.ip /\ e.fr = duration.fr
                       /\ LET m == duration.ip % segment_duration
                          IN  IF m = 0 /\ duration.fr = 0
                              THEN e.ip - s = segment_duration
                              ELSE e.ip - s = m

\* C3: a run that follows a complete run of which only the final output
\* was deleted keeps every record through validate_progress, never calls
\* process_segment, and reaches the end of the loop with every output.
C3_ResumeSkipsAllSegments ==
    resume =>
        /\ pc \notin InFlight
        /\ pc \in {"voice", "loop", "after_loop", "concat"} =>
              \A s \in AllStarts : KeyOf(s) \in DOMAIN progress
        /\ pc = "after_loop" =>
              Len(dubbed_segments) = Cardinality(AllStarts)

\* C4: when dub_video has just added a record, the clip it names and both
\* subtitle files of the window exist.
C4_RecordedFilesExist ==
    (pc = "save_open" /\ saveRet = "loop") =>
        /\ CurOutput \in files
        /\ CurRu \in files
        /\ CurEs \in files

\* C7: when the process ends during save_progress, progress.json is the
\* complete ledger it held before the call or the complete new ledger.
C7_SaveIsAtomic ==
    [][(pc \in {"save_open", "save_write"} /\ pc' \in Ended) =>
          disk' \in {diskAtSave, DiskComplete(JsonDump(progress))}]_vars

\* C8: at every loop boundary progress.json holds a record of every window
\* process_segment completed so far in this run.
C8_CompletedWorkIsPersisted ==
    pc = "loop" =>
        \A s \in fresh :
            disk.state = "complete" /\ KeyOf(s) \in DOMAIN disk.led

\* C14: a run that ended fatally (the user approved no voice reference, no
\* segment succeeded, the remux tool failed, or another error was raised)
\* ended with a non-zero exit status.
C14_FatalOutcomeExitsNonZero ==
    pc \in {"cancelled", "error"} => ExitStatus(pc) # 0

\* the next run would reuse a record for the current window: progress.json
\* loads, validate_progress raises nothing and keeps the record
WouldReuse ==
    /\ disk.state = "complete"
    /\ ~ValidateRaises(JsonLoad(disk.led), files)
    /\ CurKey \in DOMAIN ValidProgress(JsonLoad(disk.led), files)

\* C9: after an interrupt while a window is in flight, the work directory
\* makes the next run process that window again.
C9_InterruptedSegmentIsReprocessed ==
    pc = "interrupted_in_flight" => ~WouldReuse

\* an interrupt while a window is in flight leaves progress.json as it was
InterruptKeepsLedgerFile ==
    [][(pc \in InFlight /\ pc' \in Ended) => disk' = disk]_vars

(***************************************************************************)
(* SpecValidate: validate_progress on the ledger loaded from an arbitrary  *)
(* progress.json (written by earlier runs, or edited), in a work directory *)
(* that holds any of the files the ledger refers to.                       *)
(***************************************************************************)
\* segment_0_1, segment_0_1.0, segment_0_1.5, segment_1_2, segment_0_inf,
\* segment_nan_1, segment_x_1, segment_0, segment_0_1_2
KeyPool ==
    { <<WordTok, IntTok(0), IntTok(1)>>,
      <<WordTok, IntTok(0), FloatTok(1, 0)>>,
      <<WordTok, IntTok(0), FloatTok(1, 1)>>,
      <<WordTok, IntTok(1), IntTok(2)>>,
      <<WordTok, IntTok(0), InfTok>>,
      <<WordTok, NanTok, IntTok(1)>>,
      <<WordTok, WordTok, IntTok(1)>>,
      <<WordTok, IntTok(0)>>,
      <<WordTok, IntTok(0), IntTok(1), IntTok(2)>> }

RecordPool ==
    { [output |-> OutputFile(PyInt(0)), completed |-> TRUE],
      [output |-> OutputFile(PyInt(1)), completed |-> TRUE],
      [output |-> OutputFile(PyInt(0)), completed |-> FALSE],
      [output |-> NoFile, completed |-> TRUE] }

FilePool ==
    { OutputFile(PyInt(0)), OutputFile(PyInt(1)),
      SrtFile("ru", IntTok(0), IntTok(1)), SrtFile("es", IntTok(0), IntTok(1)),
      SrtFile("ru", IntTok(1), IntTok(2)), SrtFile("es", IntTok(1), IntTok(2)) }

LedgerPool ==
    UNION {[K -> RecordPool] :
              K \in {K \in SUBSET KeyPool : Cardinality(K) <= MaxEntries}}

\* setup_work_directory has loaded progress.json; dub_video is about to
\* call validate_progress
InitValidate ==
    /\ duration = PyFloat(1, 0)
    /\ segment_duration = 1
    /\ files \in SUBSET FilePool
    /\ progress \in LedgerPool
    /\ disk = DiskComplete(JsonDump(progress))
    /\ final = "absent"
    /\ pc = "validate"
    /\ start_time = 0
    /\ dubbed_segments = <<>>
    /\ saveRet = "validate"
    /\ run = 1
    /\ faulted = FALSE
    /\ fresh = {}
    /\ diskAtSave = DiskAbsent
    /\ dirty = FALSE
    /\ temps = Unobserved
    /\ WhisperIdle
    /\ resume = FALSE
    /\ calls = 0
    /\ AudioIdle
    /\ VoiceIdle

NextValidate ==
    \/ ValidateProgress
    \/ SaveOpen
    \/ SaveOpenFails
    \/ SaveWrite
    \/ SaveWriteFails

SpecValidate == InitValidate /\ [][NextValidate]_vars

(***************************************************************************)
(* Properties of SpecValidate.                                             *)
(***************************************************************************)
\* the key has three fields of which the second and third are numbers
\* that convert to whole seconds
KeyParses(key) ==
    /\ Len(key) = 3
    /\ key[2].kind \in {"int", "float"}
    /\ key[3].kind \in {"int", "float"}

\* the entry's output exists, its key parses to (start, end), and
\* ru_<start>_<end>.srt and es_<start>_<end>.srt exist
EntryIsBacked(key, data, fs) ==
    /\ data.output # NoFile
    /\ data.output \in fs
    /\ KeyParses(key)
    /\ SrtFile("ru", IntTok(key[2].ip), IntTok(key[3].ip)) \in fs
    /\ SrtFile("es", IntTok(key[2].ip), IntTok(key[3].ip)) \in fs

\* C11: the value validate_progress returns is the number of entries it
\* dropped (0 when it dropped none or the ledger is empty).
C11_ValidateReturnsDroppedCount ==
    [][(pc = "validate" /\ pc' # "error") =>
          ValidateReturn(progress, files).ip =
              Cardinality(DOMAIN progress) - Cardinality(DOMAIN progress')]_vars

\* C10: validate_progress keeps exactly the backed entries, unchanged, and
\* drops every other one; when it dropped one it writes the reduced ledger
\* to progress.json (which then holds it, unless the write itself failed).
C10_ValidateKeepsExactlyBackedEntries ==
    [][/\ pc = "validate" =>
            /\ pc' # "error"
            /\ progress' =
                 Restrict(progress,
                     {k \in DOMAIN progress :
                         EntryIsBacked(k, progress[k], files)})
            /\ progress' # progress => pc' = "save_open"
       /\ (pc = "save_write" /\ saveRet = "validate" /\ ~faulted') =>
            disk' = DiskComplete(JsonDump(progress'))]_vars

(***************************************************************************)
(* SpecValidateTwice: validate_progress called again on the same object,   *)
(* the files of the work directory unchanged in between.                   *)
(***************************************************************************)
\* calls of validate_progress on one object
MaxCalls == 2

\* validate_progress has returned and is called again
ValidateAgain ==
    /\ pc = "voice"
    /\ calls < MaxCalls
    /\ pc' = "validate"
    /\ UNCHANGED <<whisperVars, audVars, voiceVars, temps, calls, inputs, fsVars, progress, loopVars,
                   saveVars, runVars, faulted>>

NextValidateTwice ==
    \/ NextValidate
    \/ ValidateAgain

SpecValidateTwice == InitValidate /\ [][NextValidateTwice]_vars

\* C12: a call of validate_progress that follows another one, with no
\* change of the files in between, drops no entry, writes nothing and
\* returns: the ledger in memory and progress.json stay as the first call
\* left them.
C12_ValidateIsIdempotent ==
    [][(pc = "validate" /\ calls >= 1) =>
          /\ pc' = "voice"
          /\ progress' = progress
          /\ disk' = disk]_vars

\* C12 witness: the first call dropped an entry and kept another, its save
\* failed, and the second call has returned.
C12_Witness ==
    /\ pc = "voice"
    /\ calls = 2
    /\ progress # EmptyLedger
    /\ disk.state = "complete"
    /\ DOMAIN disk.led # DOMAIN progress

(***************************************************************************)
(* SpecLedger: save_progress and the next start of the program.  Either    *)
(* the program starts on a work directory without progress.json, or        *)
(* validate_progress has just dropped entries of a ledger loaded from any  *)
(* progress.json and calls save_progress; the user then cancels at the     *)
(* voice reference and the program is started again.                       *)
(***************************************************************************)
InitLedger ==
    /\ duration = PyFloat(1, 0)
    /\ segment_duration = 1
    /\ files \in SUBSET FilePool
    /\ \/ /\ pc = "start"
          /\ calls = 0
          /\ progress = EmptyLedger
          /\ disk = DiskAbsent
          /\ diskAtSave = DiskAbsent
       \/ /\ pc = "save_open"
          /\ calls = 1
          /\ \E led \in LedgerPool :
                /\ ~ValidateRaises(led, files)
                /\ ValidProgress(led, files) # led
                /\ progress = ValidProgress(led, files)
                /\ disk = DiskComplete(JsonDump(led))
          /\ diskAtSave = disk
    /\ final = "absent"
    /\ start_time = 0
    /\ dubbed_segments = <<>>
    /\ saveRet = "validate"
    /\ run = 1
    /\ faulted = FALSE
    /\ fresh = {}
    /\ dirty = FALSE
    /\ temps = Unobserved
    /\ WhisperIdle
    /\ resume = FALSE
    /\ AudioIdle
    /\ VoiceIdle

NextLedger ==
    \/ SaveOpen
    \/ SaveOpenFails
    \/ SaveWrite
    \/ SaveWriteFails
    \/ VoiceCancelled
    \/ NextRun
    \/ Load

SpecLedger == InitLedger /\ [][NextLedger]_vars

\* C13: when save_progress has written progress.json, loading the file
\* gives the ledger that was saved; setup_work_directory loads what the
\* file holds, and the empty ledger, with no error, when there is no file.
C13_LedgerRoundTrip ==
    [][/\ (pc = "save_write" /\ disk'.state = "complete") =>
            JsonLoad(disk'.led) = progress
       /\ (pc = "start" /\ disk.state = "complete") =>
            (pc' = "validate" /\ JsonDump(progress') = disk.led)
       /\ (pc = "start" /\ disk.state = "absent") =>
            (pc' = "validate" /\ progress' = EmptyLedger)]_vars

\* C13 witness: a second process has loaded a record with completed =
\* false from the progress.json the first one saved (the ledger loaded
\* passes validation whole; the one on disk before the save did not).
C13_Witness ==
    /\ run = 2
    /\ pc = "validate"
    /\ Cardinality(DOMAIN progress) = 1
    /\ \E k \in DOMAIN progress : ~progress[k].completed
    /\ ~ValidateRaises(progress, files)
    /\ ValidProgress(progress, files) = progress

(***************************************************************************)
(* SpecVoice: the voice reference of dub_video (lines 190-227), with       *)
(* load_voice_samples, verify_voice_samples (one user answer per step),    *)
(* extract_voice_references and save_approved_samples.                     *)
(***************************************************************************)
\* samples one extraction can produce, files a metadata.json can list
MaxSamples == 2

\* the elements of a set of numbers in ascending order
RECURSIVE Ascending(_)
Ascending(S) ==
    IF S = {} THEN <<>>
    ELSE LET m == CHOOSE x \in S : \A y \in S : x <= y
         IN  <<m>> \o Ascending(S \ {m})

\* extract_voice_references: sample_<i+1>.wav for the chunks of suitable
\* length, in order; [] when there is none or an exception was caught
ExtractionResults ==
    { [i \in 1..Cardinality(S) |-> ExtractedSample(Ascending(S)[i])] :
        S \in SUBSET (1..MaxSamples) }

\* metadata.json is no JSON document, or has no "samples" member
CorruptMetadata == [kind |-> "corrupt", samples |-> <<>>]

ListMetadata(l) == [kind |-> "list", samples |-> l]

\* the samples of a list that exist, whatever the others
LoadExistingVoiceSamples(meta, fs) ==
    IF meta.kind = "absent" THEN [raises |-> FALSE, value |-> PyNone]
    ELSE IF meta.kind = "corrupt" THEN [raises |-> TRUE, value |-> PyNone]
    ELSE [raises |-> FALSE,
          value |-> PyList(SelectSeq(meta.samples, LAMBDA x : x \in fs))]

\* load_voice_samples(voice_name): the list of metadata["samples"] when the
\* file exists and all(os.path.exists(s) for s in samples); None otherwise;
\* json.load or metadata["samples"] may raise
LoadVoiceSamples(meta, fs) ==
    IF meta.kind = "absent" THEN [raises |-> FALSE, value |-> PyNone]
    ELSE IF meta.kind = "corrupt" THEN [raises |-> TRUE, value |-> PyNone]
    ELSE IF \A i \in 1..Len(meta.samples) : meta.samples[i] \in fs
         THEN [raises |-> FALSE, value |-> PyList(meta.samples)]
         ELSE [raises |-> FALSE, value |-> PyNone]

\* reference_samples = self.voice_cloner.load_voice_samples(voice_name)
VoiceLoad ==
    /\ vpc = "load"
    /\ LET r == LoadVoiceSamples(metadata, sample_files)
       IN  IF r.raises
           THEN vpc' = "error" /\ UNCHANGED reference_samples
           ELSE /\ reference_samples' = r.value
                /\ vpc' = IF Truthy(r.value) THEN "ask_play" ELSE "extract"
    /\ UNCHANGED <<dubVars, audVars, extVars, metadata, sample_files, reference_audio,
                   current_samples, approved_samples, vi, reuse_mode>>

\* "Play samples? (y/n)" answered y: verify_voice_samples(reference_samples,
\* ..., reuse_mode=True) begins
VoicePlayYes ==
    /\ vpc = "ask_play"
    /\ current_samples' = reference_samples.list
    /\ approved_samples' = <<>>
    /\ vi' = 1
    /\ reuse_mode' = TRUE
    /\ vpc' = "verify_for"
    /\ UNCHANGED <<dubVars, audVars, extVars, metadata, sample_files, reference_samples,
                   reference_audio>>

\* any other answer: reference_samples = None
VoicePlayNo ==
    /\ vpc = "ask_play"
    /\ reference_samples' = PyNone
    /\ vpc' = "extract"
    /\ UNCHANGED <<dubVars, audVars, extVars, metadata, sample_files, reference_audio,
                   current_samples, approved_samples, vi, reuse_mode>>

\* if not reference_samples: extract_voice_references, then
\* verify_voice_samples(new_samples, ...) begins
VoiceExtract ==
    /\ vpc = "extract"
    /\ \E new \in ExtractionResults :
          /\ current_samples' = new
          /\ sample_files' = sample_files \cup {new[i] : i \in 1..Len(new)}
    /\ approved_samples' = <<>>
    /\ vi' = 1
    /\ reuse_mode' = FALSE
    /\ vpc' = "verify_for"
    /\ UNCHANGED <<dubVars, audVars, extVars, metadata, reference_samples, reference_audio>>

\* the answer s approving the samples after sample i only
VerifyAnswerSkipsCurrent ==
    /\ vpc = "verify_for"
    /\ vi <= Len(current_samples)
    /\ \E choice \in {"y", "n", "s", "other"} :
          IF reuse_mode /\ choice = "s"
          THEN /\ approved_samples' =
                    approved_samples
                        \o SubSeq(current_samples, vi + 1, Len(current_samples))
               /\ vpc' = "verify_after"
               /\ UNCHANGED vi
          ELSE /\ approved_samples' =
                    IF choice = "y"
                    THEN Append(approved_samples, current_samples[vi])
                    ELSE approved_samples
               /\ vi' = vi + 1
               /\ UNCHANGED vpc
    /\ UNCHANGED <<dubVars, audVars, extVars, metadata, sample_files, reference_samples,
                   reference_audio, current_samples, reuse_mode>>

\* one iteration of the for loop of verify_voice_samples: the user's answer
\* for sample i
VerifyAnswer ==
    /\ vpc = "verify_for"
    /\ vi <= Len(current_samples)
    /\ \E choice \in {"y", "n", "s", "other"} :
          IF reuse_mode /\ choice = "s"
          THEN /\ approved_samples' =
                    approved_samples
                        \o SubSeq(current_samples, vi, Len(current_samples))
               /\ vpc' = "verify_after"
               /\ UNCHANGED vi
          ELSE /\ approved_samples' =
                    IF choice = "y"
                    THEN Append(approved_samples, current_samples[vi])
                    ELSE approved_samples
               /\ vi' = vi + 1
               /\ UNCHANGED vpc
    /\ UNCHANGED <<dubVars, audVars, extVars, metadata, sample_files, reference_samples,
                   reference_audio, current_samples, reuse_mode>>

\* the for loop is exhausted
VerifyForEnd ==
    /\ vpc = "verify_for"
    /\ vi > Len(current_samples)
    /\ vpc' = "verify_after"
    /\ UNCHANGED <<dubVars, audVars, extVars, metadata, sample_files, reference_samples,
                   reference_audio, current_samples, approved_samples, vi,
                   reuse_mode>>

\* len(approved_samples) >= 1: the while loop ends, return approved_samples.
\* In dub_video: reference_samples = approved_samples (reuse), or go on to
\* save_approved_samples (new samples)
VerifyReturnsApproved ==
    /\ vpc = "verify_after"
    /\ approved_samples # <<>>
    /\ IF reuse_mode
       THEN reference_samples' = PyList(approved_samples) /\ vpc' = "set"
       ELSE UNCHANGED reference_samples /\ vpc' = "save"
    /\ UNCHANGED <<dubVars, audVars, extVars, metadata, sample_files, reference_audio,
                   current_samples, approved_samples, vi, reuse_mode>>

\* nothing approved: return None (at once in reuse mode, else when the
\* answer to "Extract new samples?" is not y).  In dub_video:
\* reference_samples = None and extraction (reuse), or "Process cancelled
\* by user" and return (new samples)
VerifyReturnsNone ==
    /\ vpc = "verify_after"
    /\ approved_samples = <<>>
    /\ IF reuse_mode
       THEN reference_samples' = PyNone /\ vpc' = "extract"
       ELSE UNCHANGED reference_samples /\ vpc' = "cancelled"
    /\ UNCHANGED <<dubVars, audVars, extVars, metadata, sample_files, reference_audio,
                   current_samples, approved_samples, vi, reuse_mode>>

\* nothing approved, "Extract new samples?" answered y: extract again and
\* go through the while loop once more
VerifyExtractAgain ==
    /\ vpc = "verify_after"
    /\ approved_samples = <<>>
    /\ ~reuse_mode
    /\ \E new \in ExtractionResults :
          /\ current_samples' = new
          /\ sample_files' = sample_files \cup {new[i] : i \in 1..Len(new)}
    /\ vi' = 1
    /\ vpc' = "verify_for"
    /\ UNCHANGED <<dubVars, audVars, extVars, metadata, reference_samples, reference_audio,
                   approved_samples, reuse_mode>>

\* paths numbered from 0: reference_0.wav ...
SavedPathsFromZero(approved) ==
    [i \in 1..Len(approved) |-> ApprovedSample(i - 1)]

\* the paths save_approved_samples returns: reference_1.wav ...
SavedPaths(approved) == [i \in 1..Len(approved) |-> ApprovedSample(i)]

\* reference_samples = save_approved_samples(approved_samples, voice_name)
VoiceSave ==
    /\ vpc = "save"
    /\ sample_files' =
          sample_files \cup {ApprovedSample(i) : i \in 1..Len(approved_samples)}
    /\ metadata' = ListMetadata(SavedPaths(approved_samples))
    /\ reference_samples' = PyList(SavedPaths(approved_samples))
    /\ vpc' = "set"
    /\ UNCHANGED <<dubVars, audVars, extVars, reference_audio, current_samples,
                   approved_samples, vi, reuse_mode>>

\* save_approved_samples raises: a copy fails after k copies, or the write
\* of metadata.json fails after all of them
VoiceSaveFails ==
    /\ vpc = "save"
    /\ \E k \in 0..Len(approved_samples) :
          /\ sample_files' = sample_files \cup {ApprovedSample(i) : i \in 1..k}
          /\ metadata' \in IF k = Len(approved_samples)
                           THEN {metadata, CorruptMetadata}
                           ELSE {metadata}
    /\ vpc' = "error"
    /\ UNCHANGED <<dubVars, audVars, extVars, reference_samples, reference_audio,
                   current_samples, approved_samples, vi, reuse_mode>>

\* the segment loop is entered with self.reference_audio left as it was
VoiceKeepsNoReference ==
    /\ vpc = "set"
    /\ vpc' = "process"
    /\ UNCHANGED <<dubVars, audVars, extVars, metadata, sample_files, reference_samples,
                   reference_audio, current_samples, approved_samples, vi,
                   reuse_mode>>

\* self.reference_audio = reference_samples[0] (IndexError on an empty
\* list); the segment loop, where process_segment is called, comes next
VoiceSetReference ==
    /\ vpc = "set"
    /\ IF reference_samples.list = <<>>
       THEN vpc' = "error" /\ UNCHANGED reference_audio
       ELSE reference_audio' = reference_samples.list[1] /\ vpc' = "process"
    /\ UNCHANGED <<dubVars, audVars, extVars, metadata, sample_files, reference_samples,
                   current_samples, approved_samples, vi, reuse_mode>>

\* approved/<voice_name>/metadata.json as an earlier run or the user left it
MetadataPool ==
    {NoMetadata, CorruptMetadata}
        \cup {ListMetadata(l) :
                l \in UNION {[1..n -> {ApprovedSample(i) : i \in 1..MaxSamples}] :
                                n \in 0..MaxSamples}}

\* dub_video is about to call load_voice_samples
InitVoice ==
    /\ DubIdle
    /\ AudioIdle
    /\ ExtractIdle
    /\ vpc = "load"
    /\ metadata \in MetadataPool
    /\ sample_files \in SUBSET {ApprovedSample(i) : i \in 1..MaxSamples}
    /\ reference_samples = PyNone
    /\ reference_audio = NoSample
    /\ current_samples = <<>>
    /\ approved_samples = <<>>
    /\ vi = 0
    /\ reuse_mode = FALSE

NextVoice ==
    \/ VoiceLoad
    \/ VoicePlayYes
    \/ VoicePlayNo
    \/ VoiceExtract
    \/ VerifyAnswer
    \/ VerifyForEnd
    \/ VerifyReturnsApproved
    \/ VerifyReturnsNone
    \/ VerifyExtractAgain
    \/ VoiceSave
    \/ VoiceSaveFails
    \/ VoiceSetReference

SpecVoice == InitVoice /\ [][NextVoice]_vars

\* C15: when the segment loop (and with it every call of process_segment)
\* is reached, reference_audio is the first element of a non-empty list of
\* samples, and the user approved at least one sample; a run in which no
\* sample was approved never reaches it.
C15_NoSegmentWithoutReference ==
    vpc = "process" =>
        /\ approved_samples # <<>>
        /\ Truthy(reference_samples)
        /\ Len(reference_samples.list) = Len(approved_samples)
        /\ reference_audio # NoSample
        /\ reference_audio = reference_samples.list[1]

\* C15 witness: of two saved samples the user rejected the first and kept
\* the second, which is the reference of the segment loop.
C15_Witness ==
    /\ vpc = "process"
    /\ reuse_mode
    /\ current_samples = <<ApprovedSample(1), ApprovedSample(2)>>
    /\ approved_samples = <<ApprovedSample(2)>>
    /\ reference_audio = ApprovedSample(2)

\* C18: load_voice_samples returns the list of metadata.json when the file
\* exists and every path it lists exists; it returns None when the file is
\* absent or a listed path is missing; it never returns another list.
C18_LoadReturnsAllOrNone ==
    [][vpc = "load" =>
          IF metadata.kind = "list"
                /\ \A i \in 1..Len(metadata.samples) :
                      metadata.samples[i] \in sample_files
          THEN vpc' # "error" /\ reference_samples' = PyList(metadata.samples)
          ELSE IF metadata.kind \in {"absent", "list"}
          THEN vpc' # "error" /\ reference_samples' = PyNone
          ELSE vpc' = "error"]_vars

\* C18 witness: metadata.json lists two samples of which one is missing,
\* and load_voice_samples has returned None.
C18_Witness ==
    /\ vpc = "extract"
    /\ metadata = ListMetadata(<<ApprovedSample(1), ApprovedSample(2)>>)
    /\ sample_files = {ApprovedSample(1)}
    /\ reference_samples = PyNone
    /\ current_samples = <<>>

(***************************************************************************)
(* More properties of Spec.                                                *)
(***************************************************************************)
\* the manifest the claim describes: one absolute path per window that has
\* a record (reused or added in this run), in ascending order of start
ExpectedManifest ==
    LET resolved == Ascending({s \in AllStarts : KeyOf(s) \in DOMAIN progress})
    IN  [i \in 1..Len(resolved) |-> AbsPath(OutputFile(PyInt(resolved[i])))]

\* C16: after the loop the manifest lists one output per resolved window in
\* ascending start order; the remux tool is started only from there, once,
\* and the run then ends: complete final output on status 0, an error
\* otherwise.
C16_ManifestInWindowOrder ==
    [][/\ pc \in {"after_loop", "concat"} =>
            Manifest(dubbed_segments) = ExpectedManifest
       /\ pc' = "after_loop" => pc = "loop"
       /\ pc' = "concat" => pc = "after_loop"
       /\ pc = "concat" => pc' \in {"done", "error", "interrupted"}
       /\ (pc = "concat" /\ pc' = "done") => final' = "complete"
       /\ (pc = "concat" /\ pc' = "error") => final' # "complete"
       /\ pc \in Ended => pc' \in Ended \cup {"start"}]_vars

\* C16 witness: the remux tool is started on two outputs, the first reused
\* from the ledger and the second produced in this run.
C16_Witness ==
    /\ pc = "concat"
    /\ run = 2
    /\ fresh = {1}
    /\ Len(dubbed_segments) = 2

\* C17: while a window is in flight and when process_segment returns None
\* for it, the ledger in memory and progress.json are unchanged; after the
\* failure the loop is at the next window with the list of outputs as it
\* was; the loop ends only when the range is exhausted, and at every
\* remaining window it reuses a record or calls process_segment.
C17_FailedSegmentLeavesLedger ==
    [][/\ pc \in InFlight =>
            pc' \in InFlight \cup {"loop", "save_open", "interrupted_in_flight"}
       /\ (pc \in InFlight /\ pc' \in InFlight \cup {"loop"}) =>
            (progress' = progress /\ disk' = disk)
       /\ (pc \in InFlight /\ pc' = "loop") =>
            /\ start_time' = start_time + segment_duration
            /\ dubbed_segments' = dubbed_segments
       /\ (pc = "loop" /\ pc' = "after_loop") => ~InRange(start_time, duration)
       /\ (pc = "loop" /\ InRange(start_time, duration)) =>
            pc' \in {"loop", "transcribe", "interrupted"}]_vars

\* C17 witness: the first window failed, nothing was recorded or written,
\* and the second window is being processed.
C17_Witness ==
    /\ pc = "transcribe"
    /\ run = 1
    /\ start_time > 0
    /\ progress = EmptyLedger
    /\ disk = DiskAbsent

\* the keys of the windows of the partition of [0, duration)
PartitionKeys ==
    {KeyOf(k * segment_duration) : k \in 0..(total_segments - 1)}

\* C19: after the loop of a first run (the ledger was empty) in which
\* process_segment succeeded for every window, the ledger holds exactly
\* one entry per window of the partition of [0, duration), each completed,
\* and, when no write failed, progress.json holds that ledger.
C19_OneEntryPerWindow ==
    (pc = "after_loop" /\ run = 1 /\ fresh # {} /\ fresh = AllStarts) =>
        /\ DOMAIN progress = PartitionKeys
        /\ \A key \in DOMAIN progress : progress[key].completed
        /\ ~faulted => disk = DiskComplete(JsonDump(progress))

\* C19 where the loop goes through as many windows as total_segments counts
C19_AsTheLoopCounts ==
    Cardinality(AllStarts) = total_segments => C19_OneEntryPerWindow

(***************************************************************************)
(* More properties of SpecAudio.                                           *)
(***************************************************************************)
\* C20: in an exported track that holds a synthesized clip, the first
\* element is a clip: no silence precedes the first utterance spoken,
\* whichever syntheses failed.
C20_NoSilenceBeforeFirstClip ==
    (apc = "returned_true" /\ \E k \in 1..Len(final_audio) :
                                  final_audio[k].kind = "clip") =>
        final_audio[1].kind = "clip"

\* the silence, in ticks, of the pieces a..b of a track
RECURSIVE SilenceIn(_, _, _)
SilenceIn(track, a, b) ==
    IF a > b THEN 0 ELSE track[a].dur + SilenceIn(track, a + 1, b)

\* C21: between two consecutive clips of the track the silence adds up to
\* at most max_gap, whatever syntheses failed between them.
C21_SilenceBetweenClipsCapped ==
    \A j, k \in 1..Len(final_audio) :
        (/\ j < k
         /\ final_audio[j].kind = "clip"
         /\ final_audio[k].kind = "clip"
         /\ \A m \in (j + 1)..(k - 1) : final_audio[m].kind = "silence") =>
            SilenceIn(final_audio, j + 1, k - 1) <= max_gap

\* the clips of a track, in the order of the track
ClipsOf(track) == SelectSeq(track, LAMBDA piece : piece.kind = "clip")

\* the clips of the subtitles among the first n that synthesized, att[k]
\* telling whether the subtitle at position k did
RECURSIVE SynthesizedClips(_, _)
SynthesizedClips(att, n) ==
    IF n = 0 THEN <<>>
    ELSE SynthesizedClips(att, n - 1) \o (IF att[n] THEN <<Clip(n)>> ELSE <<>>)

\* C22: an iteration whose synthesis fails leaves last_end as it was and
\* the loop running; the call returns only after every subtitle has been
\* attempted; the clips of the track are the clips of the subtitles that
\* synthesized, in the order of their positions in sorted_subs, which is
\* ascending by start.
C22_FailureSkipsOneSubtitle ==
    [][/\ (idx' = idx + 1 /\ ~attempts'[idx']) =>
            (last_end' = last_end /\ apc' = "loop")
       /\ (apc = "loop" /\ apc' # "loop") =>
            (idx = Len(subtitles) /\ Len(attempts) = Len(subtitles))
       /\ ClipsOf(final_audio') = SynthesizedClips(attempts', Len(attempts'))
       /\ LET ss == sorted_subs
          IN  \A k \in 1..(Len(ss) - 1) : ss[k].start <= ss[k + 1].start]_vars

\* C22 witness: of three subtitles the second failed, the third was still
\* attempted and synthesized, and the call returned.
C22_Witness ==
    /\ apc = "returned_true"
    /\ attempts = <<TRUE, FALSE, TRUE>>
    /\ ClipsOf(final_audio) = <<Clip(1), Clip(3)>>

\* the positions in sorted_subs of the subtitles synthesized so far
Synthesized == {k \in 1..Len(attempts) : attempts[k]}

\* C23: last_end is 0 until a subtitle has synthesized, and afterwards it
\* is the end timestamp of the last subtitle that synthesized.
C23_CursorIsLastSynthesizedEnd ==
    last_end =
        IF Synthesized = {} THEN 0
        ELSE sorted_subs[CHOOSE k \in Synthesized :
                             \A m \in Synthesized : m <= k].end

\* C23 witness: a subtitle two ticks long synthesized, the next one
\* failed, and the cursor is still at the end of the first.
C23_Witness ==
    /\ apc = "loop"
    /\ attempts = <<TRUE, FALSE>>
    /\ sorted_subs[1].end = sorted_subs[1].start + 2
    /\ last_end = sorted_subs[1].end
    /\ last_end # sorted_subs[2].end

\* the lists that hold the elements of subs in another order
Reorderings(subs) ==
    {[k \in DOMAIN subs |-> subs[p[k]]] :
        p \in {q \in [DOMAIN subs -> DOMAIN subs] :
                  \A j, k \in DOMAIN subs : q[j] = q[k] => j = k}}

\* the synthesizer of this call as a function of the subtitle: whether the
\* subtitle at its position of sorted_subs synthesized
Synthesizer ==
    LET ss == sorted_subs
    IN  [sub \in {ss[k] : k \in DOMAIN ss} |->
            attempts[CHOOSE k \in DOMAIN ss : ss[k] = sub]]

\* C24: when a call with subtitles of pairwise distinct starts has gone
\* through its loop and returned, generate_timed_audio gives, for every
\* reordering of the list and the same synthesizer, the track and the
\* result of this call.
C24_InputOrderIsIrrelevant ==
    (/\ AudioReturned
     /\ Len(attempts) = Len(subtitles)
     /\ \A j, k \in DOMAIN subtitles :
            subtitles[j].start = subtitles[k].start => j = k) =>
        LET ss == sorted_subs
            ok == Synthesizer
            call == [track |-> [k \in DOMAIN final_audio |->
                                   IF final_audio[k].kind = "clip"
                                   THEN [kind |-> "clip",
                                         sub |-> ss[final_audio[k].of]]
                                   ELSE [kind |-> "silence",
                                         dur |-> final_audio[k].dur]],
                     result |-> apc = "returned_true"]
        IN  \A subs \in Reorderings(subtitles) :
                GenerateTimedAudio(subs, ok) = call

\* C24 witness: three subtitles given in descending order of start, the
\* second by start failed, and the call returned its track.
C24_Witness ==
    /\ apc = "returned_true"
    /\ Len(subtitles) = 3
    /\ subtitles[1].start > subtitles[2].start
    /\ subtitles[2].start > subtitles[3].start
    /\ attempts = <<TRUE, FALSE, TRUE>>

(***************************************************************************)
(* SpecResume: dub_video on a work directory whose progress.json holds any *)
(* ledger, from validate_progress to the end of the loop over the windows. *)
(***************************************************************************)
NextResume ==
    \/ ValidateProgress
    \/ SaveOpen
    \/ SaveOpenFails
    \/ SaveWrite
    \/ SaveWriteFails
    \/ VoiceApproved
    \/ VoiceCancelled
    \/ LoopReuse
    \/ LoopProcess
    \/ LoopExit

SpecResume == InitValidate /\ [][NextResume]_vars

\* C25: the loop takes a window's output from the ledger only when the
\* entry of the window's key has completed = true, and calls
\* process_segment for a window whose entry has completed = false.
C25_ReuseOnlyCompleted ==
    [][/\ (pc = "loop" /\ dubbed_segments' # dubbed_segments) =>
            (CurKey \in DOMAIN progress /\ progress[CurKey].completed)
       /\ (/\ pc = "loop"
           /\ InRange(start_time, duration)
           /\ CurKey \in DOMAIN progress
           /\ ~progress[CurKey].completed) => pc' = "transcribe"]_vars

(***************************************************************************)
(* Properties of the segment keys (Spec).                                  *)
(***************************************************************************)
\* C26: every key of the ledger of dub_video is segment_<start>_<end> with
\* start and end written as integers, so that the names validate_progress
\* derives from the key are the names the subtitle files were written under.
C26_KeysAreIntegerTokens ==
    \A key \in DOMAIN progress :
        /\ Len(key) = 3
        /\ key[2].kind = "int"
        /\ key[3].kind = "int"
        /\ SrtFile("ru", IntTok(IntOfFloat(key[2]).val),
                         IntTok(IntOfFloat(key[3]).val))
              = SrtFile("ru", key[2], key[3])

(***************************************************************************)
(* More properties of SpecValidate.                                        *)
(***************************************************************************)
\* C27: validate_progress returns whatever the keys of the ledger are; an
\* entry whose key does not parse is dropped, and every entry whose key
\* parses is kept or dropped by its own files.
C27_MalformedKeyFailsOwnEntry ==
    [][pc = "validate" =>
          /\ pc' # "error"
          /\ \A k \in DOMAIN progress :
                IF KeyParses(k)
                THEN k \in DOMAIN progress'
                        <=> EntryIsBacked(k, progress[k], files)
                ELSE k \notin DOMAIN progress']_vars

(***************************************************************************)
(* More properties of SpecVoice.                                           *)
(***************************************************************************)
\* C28: extract_voice_references is reached only when load_voice_samples
\* gave no approved set or the user approved none of its samples in the
\* re-confirmation; an answer other than y to "Play samples?" keeps the
\* loaded set as reference_samples and goes on to take the reference from it.
C28_ApprovedSetIsPreferred ==
    [][/\ vpc' = "extract" =>
            \/ vpc = "extract"
            \/ /\ vpc = "load"
               /\ ~Truthy(LoadVoiceSamples(metadata, sample_files).value)
            \/ vpc = "verify_after" /\ reuse_mode
       /\ (vpc = "ask_play" /\ vpc' # "verify_for") =>
            (vpc' = "set" /\ reference_samples' = reference_samples)]_vars

(***************************************************************************)
(* SpecExtract: one call of extract_voice_references (voice_cloner.py),    *)
(* the recursive calls included.  A chunk is the length in seconds of a    *)
(* non-silent span that detect_nonsilent found.                            *)
(***************************************************************************)
\* chunks one detect_nonsilent call can return
MaxChunks == 6

\* lengths of chunks: too short for every tier, long enough for the
\* tiers that take 2 s, long enough for the default tier, short enough
\* only for the last tier
ChunkLengths == {1, 2, 3, 18}

ChunkLists == UNION {[1..n -> ChunkLengths] : n \in 0..MaxChunks}

\* the calls the program makes (dub_video with the defaults,
\* verify_voice_samples with 4, 8, -45) and calls with other thresholds
ExtractCalls ==
    { [min |-> 3, max |-> 10, thresh |-> -40],
      [min |-> 4, max |-> 8, thresh |-> -45],
      [min |-> 3, max |-> 10, thresh |-> -50],
      [min |-> 3, max |-> 10, thresh |-> -30] }

\* the for loop over the chunks from chunk i on: sample_<i+1>.wav for each
\* chunk of suitable length, until there are 5
RECURSIVE ExtractLoop(_, _, _, _, _)
ExtractLoop(cs, lo, hi, i, acc) ==
    IF i > Len(cs) \/ Len(acc) >= 5 THEN acc
    ELSE ExtractLoop(cs, lo, hi, i + 1,
                     IF lo <= cs[i] /\ cs[i] <= hi
                     THEN Append(acc, ExtractedSample(i))
                     ELSE acc)

\* a retry that goes from the first tier straight to the last
RetrySkipsTier(thresh) ==
    IF thresh = -40 THEN [retry |-> TRUE, min |-> 2, max |-> 20, thresh |-> -50]
    ELSE [retry |-> FALSE, min |-> 0, max |-> 0, thresh |-> thresh]

\* the arguments of the recursive call made when nothing was extracted
RetryCall(thresh) ==
    IF thresh = -40 THEN [retry |-> TRUE, min |-> 2, max |-> 15, thresh |-> -45]
    ELSE IF thresh = -45
    THEN [retry |-> TRUE, min |-> 2, max |-> 20, thresh |-> -50]
    ELSE [retry |-> FALSE, min |-> 0, max |-> 0, thresh |-> thresh]

\* the audio is loaded and detect_nonsilent returns the chunks
ExtractDetect ==
    /\ epc = "detect"
    /\ chunks' \in ChunkLists
    /\ extracted_samples' = <<>>
    /\ epc' = "loop"
    /\ UNCHANGED <<dubVars, audVars, vpc, metadata, sample_files, reference_samples,
                   reference_audio, current_samples, approved_samples, vi,
                   reuse_mode, min_duration, max_duration, silence_thresh>>

\* an exception in the try block (decoding, detection, the export of the
\* k-th sample): except Exception, return []; the locals are gone
ExtractRaises ==
    /\ epc \in {"detect", "loop"}
    /\ extracted_samples' = <<>>
    /\ chunks' = <<>>
    /\ epc' = "returned"
    /\ IF epc = "loop"
       THEN \E k \in 0..Len(ExtractLoop(chunks, min_duration, max_duration, 1, <<>>)) :
               sample_files' =
                   sample_files \cup
                       {ExtractLoop(chunks, min_duration, max_duration, 1, <<>>)[i] :
                           i \in 1..k}
       ELSE UNCHANGED sample_files
    /\ UNCHANGED <<dubVars, audVars, vpc, metadata, reference_samples,
                   reference_audio, current_samples, approved_samples, vi,
                   reuse_mode, min_duration, max_duration, silence_thresh>>

\* the for loop over the chunks, each sample exported
ExtractSamples ==
    /\ epc = "loop"
    /\ extracted_samples' =
          ExtractLoop(chunks, min_duration, max_duration, 1, <<>>)
    /\ sample_files' =
          sample_files \cup {extracted_samples'[i] : i \in 1..Len(extracted_samples')}
    /\ epc' = "after"
    /\ UNCHANGED <<dubVars, audVars, vpc, metadata, reference_samples,
                   reference_audio, current_samples, approved_samples, vi,
                   reuse_mode, min_duration, max_duration, silence_thresh, chunks>>

\* if not extracted_samples, at -40 or -45: return self.extract_...(...),
\* a call with its own locals
ExtractRetry ==
    /\ epc = "after"
    /\ extracted_samples = <<>>
    /\ RetryCall(silence_thresh).retry
    /\ chunks' = <<>>
    /\ min_duration' = RetryCall(silence_thresh).min
    /\ max_duration' = RetryCall(silence_thresh).max
    /\ silence_thresh' = RetryCall(silence_thresh).thresh
    /\ epc' = "detect"
    /\ UNCHANGED <<dubVars, audVars, vpc, metadata, sample_files, reference_samples,
                   reference_audio, current_samples, approved_samples, vi,
                   reuse_mode, extracted_samples>>

\* return extracted_samples
ExtractReturn ==
    /\ epc = "after"
    /\ extracted_samples # <<>> \/ ~RetryCall(silence_thresh).retry
    /\ epc' = "returned"
    /\ UNCHANGED <<dubVars, audVars, vpc, metadata, sample_files, reference_samples,
                   reference_audio, current_samples, approved_samples, vi,
                   reuse_mode, min_duration, max_duration, silence_thresh, chunks,
                   extracted_samples>>

InitExtract ==
    /\ DubIdle
    /\ AudioIdle
    /\ vpc = "idle"
    /\ metadata = NoMetadata
    /\ sample_files = {}
    /\ reference_samples = PyNone
    /\ reference_audio = NoSample
    /\ current_samples = <<>>
    /\ approved_samples = <<>>
    /\ vi = 0
    /\ reuse_mode = FALSE
    /\ epc = "detect"
    /\ \E call \in ExtractCalls :
          /\ min_duration = call.min
          /\ max_duration = call.max
          /\ silence_thresh = call.thresh
    /\ chunks = <<>>
    /\ extracted_samples = <<>>

NextExtract ==
    \/ ExtractDetect
    \/ ExtractRaises
    \/ ExtractSamples
    \/ ExtractRetry
    \/ ExtractReturn

\* the call runs on as long as it has a step to take
SpecExtract == InitExtract /\ [][NextExtract]_vars /\ WF_vars(NextExtract)

\* the chunk of length c is a candidate of the tier (lo, hi)
Suitable(c, lo, hi) == lo <= c /\ c <= hi

\* C29: extract_voice_references returns, with at most 5 samples.  It
\* calls itself only when an attempt that did not raise found no suitable
\* chunk, and only from threshold -40 to (2, 15, -45) and from -45 to
\* (2, 20, -50); it returns samples exactly when the last attempt found a
\* suitable chunk, and [] when an attempt raised.
C29_ExtractionTerminates ==
    /\ <>(epc = "returned")
    /\ [](Len(extracted_samples) <= 5)
    /\ [][/\ (epc = "after" /\ epc' = "detect") =>
              /\ \A i \in 1..Len(chunks) :
                    ~Suitable(chunks[i], min_duration, max_duration)
              /\ \/ /\ silence_thresh = -40
                    /\ <<min_duration', max_duration', silence_thresh'>>
                          = <<2, 15, -45>>
                 \/ /\ silence_thresh = -45
                    /\ <<min_duration', max_duration', silence_thresh'>>
                          = <<2, 20, -50>>
          /\ (epc = "after" /\ epc' = "returned") =>
              /\ extracted_samples' # <<>> <=>
                    \E i \in 1..Len(chunks) :
                        Suitable(chunks[i], min_duration, max_duration)
              /\ extracted_samples' = <<>> => silence_thresh \notin {-40, -45}
          /\ (epc \in {"detect", "loop"} /\ epc' = "returned") =>
              extracted_samples' = <<>>
          /\ epc = "returned" => epc' = "returned"]_vars

\* C29 witness: a call with the defaults found nothing at the first two
\* tiers (the parameters are those of the third) and has returned the 5
\* samples of the first 5 of 6 chunks that suit the third tier.
C29_Witness ==
    /\ epc = "returned"
    /\ <<min_duration, max_duration, silence_thresh>> = <<2, 20, -50>>
    /\ Len(chunks) = 6
    /\ Len(extracted_samples) = 5

(***************************************************************************)
(* SpecSamples: the voice reference of dub_video over successive runs on   *)
(* a work directory that starts empty; no sample file is removed between   *)
(* the runs.                                                               *)
(***************************************************************************)
\* the program is started again on the same work directory: the files
\* stay, the memory of the process is new
VoiceNextRun ==
    /\ vpc \in {"process", "cancelled", "error"}
    /\ vpc' = "load"
    /\ reference_samples' = PyNone
    /\ reference_audio' = NoSample
    /\ current_samples' = <<>>
    /\ approved_samples' = <<>>
    /\ vi' = 0
    /\ reuse_mode' = FALSE
    /\ UNCHANGED <<dubVars, audVars, extVars, metadata, sample_files>>

InitSamples ==
    /\ DubIdle
    /\ AudioIdle
    /\ ExtractIdle
    /\ vpc = "load"
    /\ metadata = NoMetadata
    /\ sample_files = {}
    /\ reference_samples = PyNone
    /\ reference_audio = NoSample
    /\ current_samples = <<>>
    /\ approved_samples = <<>>
    /\ vi = 0
    /\ reuse_mode = FALSE

NextSamples ==
    \/ NextVoice
    \/ VoiceNextRun

SpecSamples == InitSamples /\ [][NextSamples]_vars

\* C30: save_approved_samples of n >= 1 samples leaves reference_1 ..
\* reference_n on disk and a metadata.json that lists exactly these paths
\* in this order, whatever it listed before, and returns them;
\* load_voice_samples then gives that list, at once and in every later
\* run, for metadata.json changes only in save_approved_samples.
C30_SaveLoadRoundTrip ==
    [][/\ (vpc = "save" /\ vpc' = "set") =>
            LET n == Len(approved_samples)
                paths == [i \in 1..n |-> ApprovedSample(i)]
            IN  /\ n >= 1
                /\ \A i \in 1..n : paths[i] \in sample_files'
                /\ metadata' = ListMetadata(paths)
                /\ reference_samples' = PyList(paths)
                /\ LoadVoiceSamples(metadata', sample_files')
                      = [raises |-> FALSE, value |-> PyList(paths)]
       /\ metadata' # metadata => vpc = "save"
       /\ sample_files \subseteq sample_files'
       /\ (vpc = "load" /\ metadata.kind = "list") =>
            /\ vpc' = "ask_play"
            /\ reference_samples' = PyList(metadata.samples)]_vars

\* C30 witness: reference_2.wav is on disk from an earlier save of two
\* samples, a later run saved a set of one, metadata.json lists exactly
\* that one, and the run after that has loaded it.
C30_Witness ==
    /\ vpc = "ask_play"
    /\ ApprovedSample(2) \in sample_files
    /\ metadata = ListMetadata(<<ApprovedSample(1)>>)
    /\ reference_samples = PyList(<<ApprovedSample(1)>>)

(***************************************************************************)
(* SpecArtifacts: the runs of Spec with the temporary artifacts observed   *)
(* (the audio track of each window, the concat file), the work directory   *)
(* left alone between the runs.                                            *)
(***************************************************************************)
InitArtifacts ==
    /\ duration \in Durations
    /\ segment_duration \in 1..MaxW
    /\ files = {}
    /\ disk = DiskAbsent
    /\ final = "absent"
    /\ progress = EmptyLedger
    /\ pc = "start"
    /\ start_time = 0
    /\ dubbed_segments = <<>>
    /\ saveRet = "validate"
    /\ run = 1
    /\ faulted = FALSE
    /\ fresh = {}
    /\ diskAtSave = DiskAbsent
    /\ dirty = FALSE
    /\ resume = FALSE
    /\ calls = 0
    /\ temps = {}
    /\ WhisperIdle
    /\ AudioIdle
    /\ VoiceIdle

NextArtifacts ==
    \/ Load
    \/ ValidateProgress
    \/ SaveOpen
    \/ SaveOpenFails
    \/ SaveWrite
    \/ SaveWriteFails
    \/ VoiceApproved
    \/ VoiceCancelled
    \/ LoopReuse
    \/ LoopProcess
    \/ LoopExit
    \/ TranscribeNone
    \/ TranscribeSubs
    \/ TranscribeWriteFails
    \/ SynthOk
    \/ SynthFails
    \/ MergeOk
    \/ MergeFails
    \/ Record
    \/ AfterLoop
    \/ ConcatOk
    \/ ConcatFails
    \/ Interrupt
    \/ NextRun

SpecArtifacts == InitArtifacts /\ [][NextArtifacts]_vars

\* C31: when process_segment returns a clip, the audio track of its window
\* is not on disk; when the concatenation succeeded, segments.txt is not on
\* disk; a step in which process_segment returns None or the run ends with
\* an error removes no temporary artifact.
C31_TemporaryArtifactsPolicy ==
    [][/\ (pc = "merge" /\ pc' = "returned") => CurTempAudio \notin temps'
       /\ (pc = "concat" /\ pc' = "done") => ConcatFile \notin temps'
       /\ ((pc \in InFlight /\ pc' = "loop") \/ pc' = "error") =>
            temps \subseteq temps']_vars

\* C31 witness: a run has ended with its concatenation done and no
\* segments.txt, while the audio track of a window whose merge failed is
\* still on disk.
C31_Witness ==
    /\ pc = "done"
    /\ run = 1
    /\ ConcatFile \notin temps
    /\ \E f \in temps : f.pre = "temp_audio"

(***************************************************************************)
(* The phases of a run of dub_video.                                       *)
(***************************************************************************)
\* the phase the process is in: 0 the work directory is being set up and
\* the processors initialised (the constructor), 1 validate_progress with
\* its save, 2 the voice reference, 3 the segment loop, 4 concatenation,
\* 5 done
Phase ==
    CASE pc = "start" -> 0
      [] pc = "validate" -> 1
      [] pc \in {"save_open", "save_write"} ->
            IF saveRet = "validate" THEN 1 ELSE 3
      [] pc = "voice" -> 2
      [] pc \in {"loop", "after_loop"} \cup InFlight -> 3
      [] pc = "concat" -> 4
      [] pc = "done" -> 5
      [] OTHER -> 6

\* C32: within one run the phases follow each other in the fixed order,
\* one at a time; concatenation starts only when the loop went through
\* every window of the partition; after an error no phase of that run
\* executes.
C32_PhasesInOrder ==
    [][/\ (pc \in Running /\ pc' \in Running \cup {"done"}) =>
            (Phase' = Phase \/ Phase' = Phase + 1)
       /\ (pc # "concat" /\ pc' = "concat") =>
            (pc = "after_loop" /\ ~InRange(start_time, duration))
       /\ pc = "error" => (pc' = "error" \/ (pc' = "start" /\ run' = run + 1))
       /\ pc' = "start" => (pc \in Ended /\ run' = run + 1)]_vars

\* C32 witness: concatenation has started after a loop over more than one
\* window, one of which gave no clip.
C32_Witness ==
    /\ pc = "concat"
    /\ start_time >= 2 * segment_duration
    /\ Len(dubbed_segments) * segment_duration < start_time

(***************************************************************************)
(* WhisperProcessor: process_video_segment and translate_to_spanish.       *)
(* A text is the sequence of its characters.                               *)
(***************************************************************************)
MaxSegments == 2

MaxWindows == 3

RECURSIVE LStrip(_)
LStrip(text) ==
    IF text = <<>> THEN text
    ELSE IF Head(text) = " " THEN LStrip(Tail(text)) ELSE text

RECURSIVE RStrip(_)
RStrip(text) ==
    IF text = <<>> THEN text
    ELSE IF text[Len(text)] = " " THEN RStrip(SubSeq(text, 1, Len(text) - 1))
    ELSE text

\* str.strip()
Strip(text) == RStrip(LStrip(text))

\* a text taken for true by `if`
AlwaysTruthyText(text) == TRUE

\* `if ru_text:`, `if translated:`, `if not text:`
TruthyText(text) == text # <<>>

\* SubtitleSegment(start, end, content)
SubtitleSegment(start, end, content) ==
    [start |-> start, end |-> end, content |-> Strip(content)]

\* segment.get("text", "") of the segments of a whisper result
SegmentTexts == {<<>>, <<" ">>, <<" ", "a">>, <<"b">>}

\* result["segments"]
Segments ==
    {[start |-> t, end |-> t + 1, text |-> text] :
        t \in 0..1, text \in SegmentTexts}

\* self.translator.translate(text, src='ru', dest='es'): an exception, or
\* an answer with its text
Answers ==
    {[kind |-> "raises", text |-> <<>>]} \cup
    {[kind |-> "text", text |-> text] :
        text \in {<<>>, <<" ">>, <<"x", " ">>, <<"y">>}}

CacheComplete(cache) == [state |-> "complete", content |-> cache]

CacheTruncated == [state |-> "truncated", content |-> EmptyCache]

\* self.translation_cache[text] = translated
Cached(cache, text, translated) ==
    [t \in DOMAIN cache \cup {text} |->
        IF t = text THEN translated ELSE cache[t]]

\* translate_to_spanish(text) with the translator's answer: what it
\* returns, the cache it leaves, and how it returned
TranslateToSpanish(text, cache, answer) ==
    IF ~TruthyText(text)
    THEN [ret |-> text, cache |-> cache, outcome |-> "empty"]
    ELSE IF text \in DOMAIN cache
    THEN [ret |-> cache[text], cache |-> cache, outcome |-> "hit"]
    ELSE IF answer.kind = "text" /\ TruthyText(Strip(answer.text))
    THEN [ret |-> Strip(answer.text),
          cache |-> Cached(cache, text, Strip(answer.text)),
          outcome |-> "stored"]
    ELSE [ret |-> text, cache |-> cache, outcome |-> "fallback"]

\* load_translation_cache: json.load of the file, {} when it does not
\* exist or does not parse
LoadTranslationCache(file) ==
    IF file.state = "complete" THEN file.content ELSE EmptyCache

\* process_video_segment is called: the audio of the window is written and
\* transcribed
WhisperCall ==
    /\ wpc \in {"idle", "returned", "raised"}
    /\ wcalls < MaxWindows
    /\ wcalls' = wcalls + 1
    /\ wpc' = "loop"
    /\ segment' = NoSegment
    /\ ru_subs' = <<>>
    /\ es_subs' = <<>>
    /\ outcome' = "none"
    /\ UNCHANGED <<translation_cache, cache_disk, runState, audVars, voiceVars>>

\* an exception in the try block: return [], []
WhisperRaises ==
    /\ wpc = "loop"
    /\ wpc' = "raised"
    /\ ru_subs' = <<>>
    /\ es_subs' = <<>>
    /\ UNCHANGED <<segment, translation_cache, cache_disk, outcome, wcalls,
                   runState, audVars, voiceVars>>

\* a segment whose text is empty after strip()
SegmentDropped ==
    /\ wpc = "loop"
    /\ \E seg \in Segments :
          /\ ~TruthyText(Strip(seg.text))
          /\ segment' = seg
    /\ UNCHANGED <<wpc, ru_subs, es_subs, translation_cache, cache_disk,
                   outcome, wcalls, runState, audVars, voiceVars>>

\* the segment is translated and appended to both lists
Keep(seg, t) ==
    /\ segment' = seg
    /\ ru_subs' = Append(ru_subs,
                         SubtitleSegment(seg.start, seg.end, Strip(seg.text)))
    /\ es_subs' = Append(es_subs, SubtitleSegment(seg.start, seg.end, t.ret))
    /\ translation_cache' = t.cache
    /\ outcome' = t.outcome

\* a segment with text; save_translation_cache writes the file when the
\* translation was stored
SegmentKept ==
    /\ wpc = "loop"
    /\ Len(ru_subs) < MaxSegments
    /\ \E seg \in Segments, answer \in Answers :
          LET t == TranslateToSpanish(Strip(seg.text), translation_cache,
                                      answer)
          IN  /\ TruthyText(Strip(seg.text))
              /\ Keep(seg, t)
              /\ cache_disk' = IF t.outcome = "stored"
                               THEN CacheComplete(t.cache) ELSE cache_disk
    /\ UNCHANGED <<wpc, wcalls, runState, audVars, voiceVars>>

\* the same, save_translation_cache failing: an exception of open() or of
\* json.dump is printed and swallowed
SegmentKeptSaveFails ==
    /\ wpc = "loop"
    /\ Len(ru_subs) < MaxSegments
    /\ \E seg \in Segments, answer \in Answers :
          LET t == TranslateToSpanish(Strip(seg.text), translation_cache,
                                      answer)
          IN  /\ TruthyText(Strip(seg.text))
              /\ t.outcome = "stored"
              /\ Keep(seg, t)
              /\ cache_disk' \in {cache_disk, CacheTruncated}
    /\ UNCHANGED <<wpc, wcalls, runState, audVars, voiceVars>>

\* the segments are exhausted: return ru_subs, es_subs
WhisperReturn ==
    /\ wpc = "loop"
    /\ wpc' = "returned"
    /\ UNCHANGED <<segment, ru_subs, es_subs, translation_cache, cache_disk,
                   outcome, wcalls, runState, audVars, voiceVars>>

\* the program is started again: WhisperProcessor() and
\* load_translation_cache
WhisperRestart ==
    /\ wpc \in {"returned", "raised"}
    /\ wcalls < MaxWindows
    /\ wpc' = "idle"
    /\ segment' = NoSegment
    /\ ru_subs' = <<>>
    /\ es_subs' = <<>>
    /\ outcome' = "none"
    /\ translation_cache' = LoadTranslationCache(cache_disk)
    /\ UNCHANGED <<cache_disk, wcalls, runState, audVars, voiceVars>>

InitWhisper ==
    /\ DubIdle
    /\ AudioIdle
    /\ VoiceIdle

NextWhisper ==
    \/ WhisperCall
    \/ WhisperRaises
    \/ SegmentDropped
    \/ SegmentKept
    \/ SegmentKeptSaveFails
    \/ WhisperReturn
    \/ WhisperRestart

SpecWhisper == InitWhisper /\ [][NextWhisper]_vars

\* C33: a text in the cache is answered from the cache, the translator not
\* called; a miss translated to a non-empty text adds exactly that pair and
\* the cache file holds the new cache when translate_to_spanish returns; a
\* failed or empty translation returns the text and leaves cache and file
\* alone; within one process no entry is removed or changed.
C33_TranslationCache ==
    [][/\ (wpc = "loop" /\ Len(es_subs') = Len(es_subs) + 1) =>
            LET text == Strip(segment'.text)
                es_text == es_subs'[Len(es_subs')].content
            IN  /\ text \in DOMAIN translation_cache =>
                     /\ outcome' = "hit"
                     /\ es_text = translation_cache[text]
                     /\ UNCHANGED <<translation_cache, cache_disk>>
                /\ outcome' = "stored" =>
                     /\ text \notin DOMAIN translation_cache
                     /\ translation_cache' =
                            Cached(translation_cache, text, es_text)
                     /\ cache_disk' = CacheComplete(translation_cache')
                /\ outcome' = "fallback" =>
                     /\ es_text = text
                     /\ UNCHANGED <<translation_cache, cache_disk>>
       /\ wpc' # "idle" =>
            \A t \in DOMAIN translation_cache :
                /\ t \in DOMAIN translation_cache'
                /\ translation_cache'[t] = translation_cache[t]]_vars

\* the same with the cache file left aside
CacheInMemory ==
    [][/\ (wpc = "loop" /\ Len(es_subs') = Len(es_subs) + 1) =>
            LET text == Strip(segment'.text)
                es_text == es_subs'[Len(es_subs')].content
            IN  /\ text \in DOMAIN translation_cache =>
                     /\ outcome' = "hit"
                     /\ es_text = translation_cache[text]
                     /\ UNCHANGED translation_cache
                /\ outcome' = "stored" =>
                     /\ text \notin DOMAIN translation_cache
                     /\ translation_cache' =
                            Cached(translation_cache, text, es_text)
                /\ outcome' = "fallback" =>
                     /\ es_text = text
                     /\ UNCHANGED translation_cache
       /\ wpc' # "idle" =>
            \A t \in DOMAIN translation_cache :
                /\ t \in DOMAIN translation_cache'
                /\ translation_cache'[t] = translation_cache[t]]_vars

\* C34: the two lists have the same length and the same start and end at
\* each position, no content is empty; a segment whose text is empty after
\* strip() changes neither list; after an exception both lists are empty.
C34_ParallelSubtitleLists ==
    [][/\ Len(ru_subs') = Len(es_subs')
       /\ \A i \in 1..Len(ru_subs') :
            /\ ru_subs'[i].start = es_subs'[i].start
            /\ ru_subs'[i].end = es_subs'[i].end
            /\ ru_subs'[i].content # <<>>
            /\ es_subs'[i].content # <<>>
       /\ (wpc = "loop" /\ wpc' = "loop" /\ Strip(segment'.text) = <<>>) =>
            UNCHANGED <<ru_subs, es_subs>>
       /\ wpc' = "raised" => (ru_subs' = <<>> /\ es_subs' = <<>>)]_vars

\* C34 witness: process_video_segment has returned two subtitles, one
\* translated and one answered with its own text, after a last segment
\* whose text was blank.
C34_Witness ==
    /\ wpc = "returned"
    /\ Len(ru_subs) = MaxSegments
    /\ Strip(segment.text) = <<>>
    /\ segment.text # <<>>
    /\ \E i, j \in 1..Len(ru_subs) :
          /\ ru_subs[i].content = es_subs[i].content
          /\ ru_subs[j].content # es_subs[j].content

(***************************************************************************)
(* SpecResize: runs on one work directory and one video, each started      *)
(* with a segment_duration of its own.                                     *)
(***************************************************************************)
\* the program is started again, with any segment_duration
NextRunResized ==
    /\ pc \in Ended
    /\ run < MaxRuns
    /\ run' = run + 1
    /\ segment_duration' \in 1..MaxW
    /\ pc' = "start"
    /\ start_time' = 0
    /\ dirty' = FALSE
    /\ faulted' = FALSE
    /\ resume' = (pc = "done" /\ ~dirty /\ final = "absent" /\ AllRecorded)
    /\ calls' = 0
    /\ UNCHANGED <<whisperVars, audVars, voiceVars, temps, duration, fsVars,
                   progress, dubbed_segments, fresh, saveVars>>

NextResize ==
    \/ Load
    \/ ValidateProgress
    \/ SaveOpen
    \/ SaveOpenFails
    \/ SaveWrite
    \/ SaveWriteFails
    \/ VoiceApproved
    \/ VoiceCancelled
    \/ LoopReuse
    \/ LoopProcess
    \/ LoopExit
    \/ TranscribeNone
    \/ TranscribeSubs
    \/ TranscribeWriteFails
    \/ SynthOk
    \/ SynthFails
    \/ MergeOk
    \/ MergeFails
    \/ Record
    \/ AfterLoop
    \/ ConcatOk
    \/ ConcatFails
    \/ Interrupt
    \/ NextRunResized

SpecResize == Init /\ [][NextResize]_vars

\* C35: no two entries of the ledger, in memory or in progress.json, have
\* the same output path.
C35_DistinctKeysDistinctOutputs ==
    /\ \A k1, k2 \in DOMAIN progress :
          k1 # k2 => progress[k1].output # progress[k2].output
    /\ disk.state = "complete" =>
          \A k1, k2 \in DOMAIN disk.led :
              k1 # k2 => disk.led[k1].output # disk.led[k2].output

\* C36: a window for which process_video_segment returned no subtitle gets
\* no record in that run: process_segment returns None, the ledger in
\* memory and on disk, the work directory and dubbed_segments stay as they
\* are, the window's key is not in the ledger, and the loop goes on with
\* the next window.
C36_SilentWindowIsNeverRecorded ==
    [][(pc = "transcribe" /\ pc' \notin {"synth"} \cup Ended) =>
            /\ pc' = "loop"
            /\ start_time' = start_time + segment_duration
            /\ CurKey \notin DOMAIN progress'
            /\ UNCHANGED <<progress, disk, files, dubbed_segments, fresh>>]_vars

\* C36 witness: in the second run of the program the first window had no
\* subtitles: the loop is past it, no ledger holds a key, no file was
\* written and nothing is listed for concatenation.
C36_Witness ==
    /\ run = 2
    /\ pc = "loop"
    /\ start_time = segment_duration
    /\ dubbed_segments = <<>>
    /\ progress = EmptyLedger
    /\ disk = DiskAbsent
    /\ files = {}

\* the elements of `part` are elements of `whole`, in the order of `whole`
InOrderOf(part, whole) ==
    \E at \in [1..Len(part) -> 1..Len(whole)] :
        /\ \A k \in 1..Len(part) : part[k] = whole[at[k]]
        /\ \A k \in 1..(Len(part) - 1) : at[k] < at[k + 1]

\* C37: verify_voice_samples returns a list only when it is not empty, and
\* the list holds samples of the round's current_samples in their order;
\* in reuse mode the answer s at sample i adds sample i and every sample
\* after it; a round without approval ends with None, in reuse mode
\* without another extraction.
C37_VerifyReturnsNoneOrApproved ==
    [][/\ (vpc = "verify_after" /\ vpc' \in {"set", "save"}) =>
            /\ approved_samples # <<>>
            /\ InOrderOf(approved_samples, current_samples)
       /\ (vpc = "verify_for" /\ vpc' = "verify_after"
                /\ vi <= Len(current_samples)) =>
            /\ reuse_mode
            /\ approved_samples' =
                 approved_samples
                     \o SubSeq(current_samples, vi, Len(current_samples))
       /\ (vpc = "verify_after" /\ approved_samples = <<>>) =>
            IF reuse_mode
            THEN /\ vpc' \in {"verify_after", "extract"}
                 /\ UNCHANGED <<current_samples, sample_files>>
            ELSE vpc' \in {"verify_after", "cancelled", "verify_for"}
       /\ (vpc = "verify_after" /\ vpc' \in {"extract", "cancelled"}) =>
            approved_samples = <<>>]_vars

\* C37 witness: verify_voice_samples has returned, in reuse mode, the saved
\* samples but the first, which was not approved.
C37_Witness ==
    /\ vpc = "set"
    /\ reuse_mode
    /\ Len(current_samples) = MaxSamples
    /\ approved_samples = Tail(current_samples)
    /\ \A k \in 2..Len(current_samples) : current_samples[k] # Head(current_samples)

====
